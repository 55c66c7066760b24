---------------------------- MODULE Phase1Proofs ---------------------------
(***************************************************************************)
(* Proofs about Phase1, for any tables of PCBs and descriptors, any keys   *)
(* and any width of addresses: what one memory of links, the hash table    *)
(* and the tree are at every moment, and that they implement Queues.       *)
(* Listed, of ListLemmas, says what the lists of a memory are; every call  *)
(* is taken from lists to lists there, from the queues of descriptors to   *)
(* the queues of semaphores here, and from these to the call of Queues.    *)
(***************************************************************************)
EXTENDS Phase1, ListLemmas

-----------------------------------------------------------------------------
(* The recursive functions *)

(* The recursive function of AddAll.                                       *)
Added(start, table, head, B) ==
  CHOOSE w : w = [i \in 0 .. B |-> IF i = 0 THEN start
    ELSE list_add(w[i - 1], table[i], head)]

(* It obeys its own equation.                                              *)
LEMMA AddedRule ==
  ASSUME NEW start, NEW table, NEW head, NEW B \in Nat, NEW i \in 0 .. B
  PROVE  Added(start, table, head, B)[i] =
           IF i = 0 THEN start ELSE list_add(Added(start, table, head, B)[i - 1], table[i], head)
<1> DEFINE added == Added(start, table, head, B)
           rule(w, c) == IF c = 0 THEN start ELSE list_add(w[c - 1], table[c], head)
           Good(c, w) == w = [d \in 0 .. c |-> rule(w, d)]
           Bad == {c \in Nat : ~ \E w : Good(c, w)}
<1>2. Bad = {}
  <2> SUFFICES ASSUME Bad # {} PROVE FALSE
    OBVIOUS
  <2>1. PICK c \in Bad : \A d \in Bad : c <= d
    BY NatMin
  <2>2. CASE c = 0
    <3> DEFINE w == [d \in 0 .. 0 |-> start]
    <3>1. \A d \in 0 .. 0 : rule(w, d) = start
      OBVIOUS
    <3>2. Good(0, w)
      <4> HIDE DEF rule
      <4> QED BY <3>1
    <3> QED BY <3>2, <2>2
  <2>3. CASE c # 0
    <3>1. c - 1 \in Nat /\ c - 1 \notin Bad
      <4>1. c \in Nat
        BY <2>1
      <4>2. c - 1 \in Nat /\ ~ (c <= c - 1)
        BY <4>1, <2>3
      <4> HIDE DEF Bad
      <4> QED BY <4>2, <2>1
    <3>2. PICK v : Good(c - 1, v)
      BY <3>1
    <3> DEFINE w == [d \in 0 .. c |-> rule(v, d)]
    <3>3. \A d \in 0 .. c - 1 : v[d] = rule(v, d)
      <4> HIDE DEF rule
      <4> QED BY <3>2
    <3>4. \A d \in 0 .. c : w[d] = rule(v, d)
      <4> HIDE DEF rule
      <4> QED OBVIOUS
    <3>5. \A d \in 0 .. c - 1 : w[d] = v[d]
      <4> HIDE DEF w, rule
      <4> QED BY <3>3, <3>4, <3>1
    <3>6. \A d \in 0 .. c : rule(v, d) = rule(w, d)
      <4> TAKE d \in 0 .. c
      <4> HIDE DEF w
      <4>1. CASE d = 0
        BY <4>1
      <4>2. CASE d # 0
        <5>1. w[d - 1] = v[d - 1]
          <6>1. d - 1 \in 0 .. c - 1
            BY <4>2
          <6> QED BY <6>1, <3>5
        <5> QED BY <5>1
      <4> QED BY <4>1, <4>2
    <3>7. Good(c, w)
      <4> HIDE DEF rule
      <4> QED BY <3>6
    <3> QED BY <3>7
  <2> QED BY <2>2, <2>3
<1>3. PICK w : Good(B, w)
  BY <1>2
<1>4. added = CHOOSE x : Good(B, x)
  BY Zenon DEF Added
<1>5. Good(B, added)
  <2> HIDE DEF Good, added
  <2> QED BY <1>3, <1>4
<1>6. \A d \in 0 .. B : added[d] = rule(added, d)
  <2> HIDE DEF rule, added
  <2> QED BY <1>5
<1> QED
  <2> HIDE DEF added
  <2>1. added[i] = IF i = 0 THEN start ELSE list_add(added[i - 1], table[i], head)
    BY <1>6
  <2> QED
    BY <2>1 DEF added

(* The recursive function shl, and its equation.                           *)
Doubled(B) == CHOOSE w : w = [i \in 0 .. B |-> IF i = 0 THEN 1 ELSE 2 * w[i - 1]]

(* The recursive function doubles at every step.                           *)
LEMMA DoubledRule ==
  ASSUME NEW B \in Nat, NEW i \in 0 .. B
  PROVE  Doubled(B)[i] = IF i = 0 THEN 1 ELSE 2 * Doubled(B)[i - 1]
<1> DEFINE two == Doubled(B)
           rule(w, c) == IF c = 0 THEN 1 ELSE 2 * w[c - 1]
           Good(c, w) == w = [d \in 0 .. c |-> rule(w, d)]
           Bad == {c \in Nat : ~ \E w : Good(c, w)}
<1>2. Bad = {}
  <2> SUFFICES ASSUME Bad # {} PROVE FALSE
    OBVIOUS
  <2>1. PICK c \in Bad : \A d \in Bad : c <= d
    BY NatMin
  <2>2. CASE c = 0
    <3> DEFINE w == [d \in 0 .. 0 |-> 1]
    <3>1. \A d \in 0 .. 0 : rule(w, d) = 1
      OBVIOUS
    <3>2. Good(0, w)
      <4> HIDE DEF rule
      <4> QED BY <3>1
    <3> QED BY <3>2, <2>2
  <2>3. CASE c # 0
    <3>1. c - 1 \in Nat /\ c - 1 \notin Bad
      <4>1. c \in Nat
        BY <2>1
      <4>2. c - 1 \in Nat /\ ~ (c <= c - 1)
        BY <4>1, <2>3
      <4> HIDE DEF Bad
      <4> QED BY <4>2, <2>1
    <3>2. PICK v : Good(c - 1, v)
      BY <3>1
    <3> DEFINE w == [d \in 0 .. c |-> rule(v, d)]
    <3>3. \A d \in 0 .. c - 1 : v[d] = rule(v, d)
      <4> HIDE DEF rule
      <4> QED BY <3>2
    <3>4. \A d \in 0 .. c : w[d] = rule(v, d)
      <4> HIDE DEF rule
      <4> QED OBVIOUS
    <3>5. \A d \in 0 .. c - 1 : w[d] = v[d]
      <4> HIDE DEF w, rule
      <4> QED BY <3>3, <3>4, <3>1
    <3>6. \A d \in 0 .. c : rule(v, d) = rule(w, d)
      <4> TAKE d \in 0 .. c
      <4> HIDE DEF w
      <4>1. CASE d = 0
        BY <4>1
      <4>2. CASE d # 0
        <5>1. w[d - 1] = v[d - 1]
          <6>1. d - 1 \in 0 .. c - 1
            BY <4>2
          <6> QED BY <6>1, <3>5
        <5> QED BY <5>1
      <4> QED BY <4>1, <4>2
    <3>7. Good(c, w)
      <4> HIDE DEF rule
      <4> QED BY <3>6
    <3> QED BY <3>7
  <2> QED BY <2>2, <2>3
<1>3. PICK w : Good(B, w)
  BY <1>2
<1>4. two = CHOOSE x : Good(B, x)
  BY Zenon DEF Doubled
<1>5. Good(B, two)
  <2> HIDE DEF Good, two
  <2> QED BY <1>3, <1>4
<1>6. \A d \in 0 .. B : two[d] = rule(two, d)
  <2> HIDE DEF rule, two
  <2> QED BY <1>5
<1> QED
  <2> HIDE DEF two
  <2>1. two[i] = IF i = 0 THEN 1 ELSE 2 * two[i - 1]
    BY <1>6
  <2> QED
    BY <2>1 DEF two

-----------------------------------------------------------------------------
(* Powers of two *)

(* A shift by one more doubles.                                            *)
LEMMA ShlRule ==
  /\ WORD \in Nat /\ shl[0] = 1
  /\ \A n \in 0 .. WORD : shl[n + 1] = 2 * shl[n]
<1> DEFINE B == WORD + 1
<1>1. B \in Nat /\ WORD \in Nat /\ 0 \in 0 .. B
  BY TableAssumption
<1>2. \A i \in 0 .. B : shl[i] = Doubled(B)[i]
  BY DEF shl, Doubled
<1> HIDE DEF B
<1>3. ASSUME NEW i \in 0 .. B
      PROVE  shl[i] = IF i = 0 THEN 1 ELSE 2 * shl[i - 1]
  <2> DEFINE j == i - 1
  <2>1. i = 0 \/ j \in 0 .. B
    BY <1>1
  <2>2. Doubled(B)[i] = IF i = 0 THEN 1 ELSE 2 * Doubled(B)[j]
    BY <1>1, DoubledRule
  <2> HIDE DEF j
  <2>3. shl[i] = IF i = 0 THEN 1 ELSE 2 * shl[j]
    BY <2>1, <2>2, <1>2
  <2> QED
    BY <2>3 DEF j
<1>4. ASSUME NEW n \in 0 .. WORD
      PROVE  shl[n + 1] = 2 * shl[n]
  <2> DEFINE i == n + 1
  <2>1. i \in 0 .. B /\ i # 0 /\ i - 1 = n
    BY <1>1 DEF B
  <2> HIDE DEF i
  <2>2. shl[i] = 2 * shl[i - 1]
    BY <2>1, <1>3
  <2> QED
    BY <2>1, <2>2 DEF i
<1> QED
  BY <1>1, <1>3, <1>4

(* Shifts of 1 are positive.                                               *)
LEMMA ShlNat == \A n \in 0 .. WORD + 1 : shl[n] \in Nat \ {0}
<1> DEFINE Bad == {n \in 0 .. WORD + 1 : shl[n] \notin Nat \ {0}}
<1> SUFFICES ASSUME Bad # {} PROVE FALSE
  OBVIOUS
<1>1. WORD \in Nat /\ Bad \in SUBSET Nat
  BY ShlRule
<1>2. PICK n \in Bad : \A j \in Bad : n <= j
  <2> HIDE DEF Bad
  <2> QED
    BY <1>1, NatMin
<1>3. n \in 0 .. WORD + 1 /\ shl[n] \notin Nat \ {0}
  OBVIOUS
<1>4. n # 0
  BY <1>3, ShlRule
<1> DEFINE m == n - 1
<1>5. m \in 0 .. WORD /\ m \in 0 .. WORD + 1 /\ ~ (n <= m) /\ m + 1 = n
  BY <1>1, <1>3, <1>4
<1> HIDE DEF m
<1>6. m \notin Bad
  <2> HIDE DEF Bad
  <2> QED
    BY <1>2, <1>5
<1>7. shl[m] \in Nat \ {0}
  BY <1>5, <1>6
<1>8. shl[n] = 2 * shl[m]
  BY <1>5, ShlRule
<1> QED
  BY <1>3, <1>7, <1>8

(* They grow.                                                              *)
LEMMA ShlGrows == \A a, b \in 0 .. WORD + 1 : a < b => shl[a] < shl[b]
<1> SUFFICES ASSUME NEW a \in 0 .. WORD + 1
             PROVE  \A b \in 0 .. WORD + 1 : a < b => shl[a] < shl[b]
  OBVIOUS
<1> DEFINE Bad == {b \in 0 .. WORD + 1 : a < b /\ ~ (shl[a] < shl[b])}
<1> SUFFICES ASSUME Bad # {} PROVE FALSE
  OBVIOUS
<1>1. WORD \in Nat /\ Bad \in SUBSET Nat
  BY ShlRule
<1>2. PICK n \in Bad : \A j \in Bad : n <= j
  <2> HIDE DEF Bad
  <2> QED
    BY <1>1, NatMin
<1>3. n \in 0 .. WORD + 1 /\ a < n /\ ~ (shl[a] < shl[n])
  OBVIOUS
<1> DEFINE m == n - 1
<1>5. m \in 0 .. WORD /\ m \in 0 .. WORD + 1 /\ ~ (n <= m) /\ m + 1 = n /\ (a = m \/ a < m)
  BY <1>1, <1>3
<1> HIDE DEF m
<1>6. m \notin Bad
  <2> HIDE DEF Bad
  <2> QED
    BY <1>2, <1>5
<1>7. a = m \/ shl[a] < shl[m]
  BY <1>5, <1>6
<1>8. shl[n] = 2 * shl[m] /\ shl[m] \in Nat \ {0} /\ shl[a] \in Nat
  BY <1>5, ShlRule, ShlNat
<1> QED
  BY <1>3, <1>7, <1>8

(* Doubling a product.                                                     *)
LEMMA DoubleProduct == ASSUME NEW a \in Nat, NEW b \in Nat PROVE 2 * (a * b) = a * (2 * b)
  OBVIOUS

(* Shifts add up.                                                          *)
LEMMA ShlSum ==
  ASSUME NEW a \in 0 .. WORD, NEW b \in 0 .. WORD, a + b \in 0 .. WORD
  PROVE  shl[a + b] = shl[a] * shl[b]
<1> DEFINE Bad == {c \in 0 .. b : shl[a + c] # shl[a] * shl[c]}
<1>0. WORD \in Nat /\ shl[0] = 1
  BY ShlRule
<1>1. shl[a] \in Nat /\ a + 0 = a /\ \A i \in 0 .. WORD : shl[i] \in Nat
  BY <1>0, ShlNat
<1>2. Bad = {}
  <2> SUFFICES ASSUME Bad # {} PROVE FALSE
    OBVIOUS
  <2>1. Bad \in SUBSET Nat
    BY <1>0
  <2>2. PICK n \in Bad : \A j \in Bad : n <= j
    <3> HIDE DEF Bad
    <3> QED
      BY <2>1, NatMin
  <2>3. n \in 0 .. b /\ shl[a + n] # shl[a] * shl[n]
    OBVIOUS
  <2>4. n # 0
    BY <2>3, <1>0, <1>1
  <2> DEFINE m == n - 1
             c == a + m
  <2>5. m \in 0 .. b /\ m \in 0 .. WORD /\ ~ (n <= m) /\ m + 1 = n /\ c \in 0 .. WORD /\ c + 1 = a + n
    BY <1>0, <2>3, <2>4
  <2>6. m \notin Bad
    <3> HIDE DEF Bad, m
    <3> QED
      BY <2>2, <2>5
  <2>7. shl[c] = shl[a] * shl[m]
    BY <2>5, <2>6
  <2> HIDE DEF m, c
  <2>8. shl[c + 1] = 2 * shl[c] /\ shl[m + 1] = 2 * shl[m]
    BY <2>5, ShlRule
  <2>9. 2 * (shl[a] * shl[m]) = shl[a] * (2 * shl[m])
    BY <1>1, <2>5, DoubleProduct
  <2> QED
    BY <2>3, <2>5, <2>7, <2>8, <2>9
<1>3. b \in 0 .. b
  BY <1>0
<1> QED
  BY <1>2, <1>3

(* Shifting right what has so many bits.                                   *)
LEMMA ShiftRight ==
  ASSUME NEW x \in Nat, NEW d \in Nat \ {0}, NEW q \in Nat, x < d * q
  PROVE  x \div d \in 0 .. q - 1
<1> DEFINE y == x \div d
<1>1. y \in Nat /\ d * y <= x
  OBVIOUS
<1> HIDE DEF y
<1>2. CASE y >= q
  <2> DEFINE e == y - q
  <2>1. e \in Nat /\ y = q + e
    BY <1>1, <1>2
  <2> HIDE DEF e
  <2>2. d * (q + e) = d * q + d * e
    BY <2>1
  <2>3. d * e \in Nat /\ d * q \in Nat
    BY <2>1
  <2> QED
    BY <1>1, <2>1, <2>2, <2>3
<1> QED
  BY <1>1, <1>2 DEF y

(* The hash of a key is the index of a bucket.                             *)
LEMMA HashInBuckets ==
  /\ HASH_BITS = TABLE_BITS
  /\ \A s \in SemKey : hash_32(s, HASH_BITS) \in Buckets
<1>1. /\ WORD \in Nat /\ TABLE_BITS \in 1 .. WORD /\ GOLDEN_RATIO \in Nat
      /\ SemKey \subseteq 0 .. shl[WORD] - 1
  BY TableAssumption
<1>2. TABLE_BITS \in 0 .. WORD + 1 /\ WORD \in 0 .. WORD + 1 /\ WORD \in 0 .. WORD
  BY <1>1
<1>3. shl[TABLE_BITS] \in Nat /\ shl[WORD] \in Nat \ {0} /\ shl[TABLE_BITS] >= 2
  <2>1. 0 \in 0 .. WORD + 1 /\ 0 < TABLE_BITS
    BY <1>1
  <2>2. shl[0] < shl[TABLE_BITS]
    BY <1>2, <2>1, ShlGrows
  <2> QED
    BY <1>2, <2>2, ShlRule, ShlNat
<1>4. HASH_BITS = TABLE_BITS
  <2> DEFINE P(k) == shl[k] <= shl[TABLE_BITS] /\ shl[TABLE_BITS] < shl[k + 1]
  <2>1. P(TABLE_BITS)
    <3>1. shl[TABLE_BITS + 1] = 2 * shl[TABLE_BITS]
      BY <1>1, ShlRule
    <3> QED
      BY <3>1, <1>3
  <2>2. \A k \in 1 .. WORD : P(k) => k = TABLE_BITS
    <3> SUFFICES ASSUME NEW k \in 1 .. WORD, P(k), k # TABLE_BITS PROVE FALSE
      OBVIOUS
    <3> DEFINE j == k + 1
    <3>1. k \in 0 .. WORD + 1 /\ j \in 0 .. WORD + 1 /\ shl[k] \in Nat /\ shl[j] \in Nat
      <4>1. k \in 0 .. WORD + 1 /\ j \in 0 .. WORD + 1
        BY <1>1
      <4> QED
        BY <4>1, ShlNat
    <3>2. TABLE_BITS < k \/ j = TABLE_BITS \/ j < TABLE_BITS
      BY <1>1
    <3>3. shl[k] <= shl[TABLE_BITS] /\ shl[TABLE_BITS] < shl[j]
      OBVIOUS
    <3> HIDE DEF j
    <3> QED
      BY <1>2, <1>3, <3>1, <3>2, <3>3, ShlGrows
  <2>3. (CHOOSE k \in 1 .. WORD : P(k)) = TABLE_BITS
    <3> HIDE DEF P
    <3> QED
      BY <1>1, <2>1, <2>2
  <2>4. HASH_BITS = CHOOSE k \in 1 .. WORD : P(k)
    BY <1>3 DEF HASH_BITS, const_ilog2, HASH_SIZE
  <2> QED
    BY <2>3, <2>4
<1>5. ASSUME NEW s \in SemKey
      PROVE  hash_32(s, TABLE_BITS) \in Buckets
  <2> DEFINE c == WORD - TABLE_BITS
             x == (s * GOLDEN_RATIO) % shl[WORD]
  <2>1. c \in 0 .. WORD /\ c \in 0 .. WORD + 1 /\ TABLE_BITS \in 0 .. WORD /\ c + TABLE_BITS = WORD
    BY <1>1
  <2>2. s * GOLDEN_RATIO \in Nat
    BY <1>1, <1>3
  <2>3. x \in Nat /\ x < shl[WORD]
    <3> DEFINE y == s * GOLDEN_RATIO
               w == shl[WORD]
    <3>1. y \in Nat /\ w \in Nat \ {0}
      BY <2>2, <1>3
    <3> HIDE DEF y, w
    <3>2. y % w \in Nat /\ y % w < w
      BY <3>1
    <3> QED
      BY <3>2 DEF y, w
  <2> HIDE DEF c, x
  <2>4. shl[WORD] = shl[c] * shl[TABLE_BITS]
    <3>1. shl[c + TABLE_BITS] = shl[c] * shl[TABLE_BITS]
      BY <1>2, <2>1, ShlSum
    <3> QED
      BY <3>1, <2>1
  <2>5. shl[c] \in Nat \ {0}
    BY <2>1, ShlNat
  <2>6. x \div shl[c] \in 0 .. shl[TABLE_BITS] - 1
    BY <1>3, <2>3, <2>4, <2>5, ShiftRight
  <2> QED
    BY <2>6 DEF hash_32, Buckets, HASH_SIZE, c, x
<1> QED
  BY <1>4, <1>5

-----------------------------------------------------------------------------
(* The lists that are there *)

PNodes == Pcb \cup Semd \cup {pcbFree_h, g_ready_queue}
PHeads(m) == {pcbFree_h, g_ready_queue} \cup {d \in Semd : m.next[d] # NULL}
PQ(m) == [h \in PHeads(m) |-> list_for_each(m, h)]
POK(m) == Listed(PNodes, PHeads(m), Pcb, m, PQ(m))

SNodes == Pcb \cup {p_child(p) : p \in Pcb}
KnownIn(m) == {p \in Pcb : m.next[p_child(p)] # NULL}
Childs(K) == {p_child(p) : p \in K}
SQ(m) == [h \in Childs(KnownIn(m)) |-> list_for_each(m, h)]
SOK(m) == Listed(SNodes, Childs(KnownIn(m)), KnownIn(m), m, SQ(m))

FNodes == Semd \cup {semdFree_h}
FHead == {semdFree_h}
FQ(m) == [h \in FHead |-> list_for_each(m, h)]
FOK(m) == Listed(FNodes, FHead, Semd, m, FQ(m))

HQ(m) == [b \in Buckets |-> hlist_for_each(m, b)]
HOK(m) == Strands(Buckets, Semd, m, HQ(m), {})

(* Addresses are apart, tables are finite.                                 *)
LEMMA Apartness ==
  /\ IsFiniteSet(PNodes) /\ IsFiniteSet(SNodes) /\ IsFiniteSet(FNodes)
  /\ NULL \notin PNodes /\ NULL \notin SNodes /\ NULL \notin FNodes
  /\ pcbFree_h # g_ready_queue
  /\ pcbFree_h \in PNodes \ (Pcb \cup Semd) /\ g_ready_queue \in PNodes \ (Pcb \cup Semd)
  /\ semdFree_h \in FNodes \ Semd /\ Pcb \cap Semd = {} /\ NULL \notin Pcb \cup Semd \cup SemKey
  /\ Pcb \subseteq PNodes /\ Semd \subseteq PNodes /\ Semd \subseteq FNodes /\ Pcb \subseteq SNodes
  /\ \A p \in Pcb : p_child(p) \in SNodes \ Pcb
  /\ \A p, q : p_child(p) = p_child(q) => p = q
  /\ IsFiniteSet(Pcb) /\ IsFiniteSet(Semd) /\ FHead = {semdFree_h}
<1>1. IsFiniteSet(Pcb) /\ IsFiniteSet(Semd) /\ Pcb \cap Semd = {} /\ NULL \notin Pcb \cup Semd \cup SemKey
  BY TableAssumption
<1>2. pcbFree_h # g_ready_queue
  BY DEF pcbFree_h, g_ready_queue
<1>3. \A p, q : p_child(p) = p_child(q) => p = q
  BY DEF p_child
<1>4. /\ {pcbFree_h, g_ready_queue, semdFree_h} \cap (Pcb \cup Semd \cup {NULL}) = {}
      /\ \A p \in Pcb : p_child(p) \notin Pcb \cup {NULL}
  BY AddressAssumption
<1>5. IsFiniteSet(PNodes)
  <2>1. IsFiniteSet({pcbFree_h}) /\ IsFiniteSet({g_ready_queue})
    BY FS_Singleton
  <2>2. {pcbFree_h, g_ready_queue} = {pcbFree_h} \cup {g_ready_queue}
    OBVIOUS
  <2>3. IsFiniteSet({pcbFree_h, g_ready_queue})
    BY <2>1, <2>2, FS_Union
  <2>4. IsFiniteSet(Pcb \cup Semd)
    BY <1>1, FS_Union
  <2> QED
    BY <2>3, <2>4, FS_Union DEF PNodes
<1>6. IsFiniteSet(SNodes)
  <2> DEFINE C == {p_child(p) : p \in Pcb}
  <2>3. [p \in Pcb |-> p_child(p)] \in Surjection(Pcb, C)
    BY DEF Surjection
  <2>1. IsFiniteSet(C)
    <3> HIDE DEF C
    <3> QED
      BY <1>1, <2>3, FS_Surjection
  <2> HIDE DEF C
  <2>2. IsFiniteSet(Pcb \cup C)
    BY <1>1, <2>1, FS_Union
  <2> QED
    BY <2>2 DEF SNodes, C
<1>7. IsFiniteSet(FNodes)
  BY <1>1, FS_Singleton, FS_Union DEF FNodes
<1>8. NULL \notin PNodes /\ NULL \notin FNodes
  BY <1>1, <1>4 DEF PNodes, FNodes
<1>9. NULL \notin SNodes
  BY <1>1, <1>4 DEF SNodes
<1> HIDE DEF pcbFree_h, g_ready_queue, semdFree_h, p_child
<1>10. /\ pcbFree_h \in PNodes \ (Pcb \cup Semd) /\ g_ready_queue \in PNodes \ (Pcb \cup Semd)
       /\ semdFree_h \in FNodes \ Semd
       /\ Pcb \subseteq PNodes /\ Semd \subseteq PNodes /\ Semd \subseteq FNodes /\ Pcb \subseteq SNodes
  BY <1>4 DEF PNodes, FNodes, SNodes
<1>11. \A p \in Pcb : p_child(p) \in SNodes \ Pcb
  BY <1>4 DEF SNodes
<1> QED
  BY <1>1, <1>2, <1>3, <1>5, <1>6, <1>7, <1>8, <1>9, <1>10, <1>11 DEF FHead

(* The buckets and the descriptors are apart.                              *)
LEMMA Buckets_Semd == HSets(Buckets, Semd)
<1>1. IsFiniteSet(Semd) /\ NULL \notin Semd
  BY TableAssumption
<1>2. Buckets \cap (Semd \cup {NULL}) = {}
  BY AddressAssumption
<1>3. IsFiniteSet(Buckets)
  <2>1. HASH_SIZE \in Nat
    <3>1. TABLE_BITS \in 0 .. WORD + 1
      BY TableAssumption
    <3> QED
      BY <3>1, ShlNat DEF HASH_SIZE
  <2> DEFINE n == HASH_SIZE - 1
  <2>2. 0 \in Int /\ n \in Int
    BY <2>1
  <2> HIDE DEF n
  <2>3. IsFiniteSet(0 .. n)
    BY <2>2, FS_Interval
  <2> QED
    BY <2>3 DEF Buckets, n
<1> QED
  BY <1>1, <1>2, <1>3 DEF HSets

(* Lists known otherwise are those that are there.                         *)
LEMMA PFrom ==
  ASSUME NEW H, NEW m, NEW M, Listed(PNodes, H, Pcb, m, M),
         pcbFree_h \in H, g_ready_queue \in H
  PROVE  PHeads(m) = H /\ PQ(m) = M /\ POK(m)
<1>1. /\ \A y \in PNodes : m.next[y] # NULL <=> y \in H \cup Pcb
      /\ M = [h \in H |-> list_for_each(m, h)]
  BY ListedHeads
<1>2. H \subseteq PNodes /\ H \cap Pcb = {}
  BY DEF Listed
<1>3. \A d \in Semd : m.next[d] # NULL <=> d \in H
  BY <1>1, Apartness
<1>4. H \subseteq Semd \cup {pcbFree_h, g_ready_queue}
  BY <1>2 DEF PNodes
<1>5. PHeads(m) = H
  BY <1>3, <1>4 DEF PHeads
<1>6. PQ(m) = M
  BY <1>1, <1>5 DEF PQ
<1> QED
  BY <1>5, <1>6 DEF POK

(* The same of the lists of children,                                      *)
LEMMA SFrom ==
  ASSUME NEW K \in SUBSET Pcb, NEW m, NEW M, Listed(SNodes, Childs(K), K, m, M)
  PROVE  KnownIn(m) = K /\ SQ(m) = M /\ SOK(m)
<1>1. /\ \A y \in SNodes : m.next[y] # NULL <=> y \in Childs(K) \cup K
      /\ M = [h \in Childs(K) |-> list_for_each(m, h)]
  BY ListedHeads
<1>2. \A p \in Pcb : p_child(p) \in Childs(K) \cup K <=> p \in K
  <2> TAKE p \in Pcb
  <2>1. p_child(p) \notin K
    BY Apartness
  <2>2. p_child(p) \in Childs(K) <=> p \in K
    BY Apartness DEF Childs
  <2> QED
    BY <2>1, <2>2
<1>3. KnownIn(m) = K
  BY <1>1, <1>2, Apartness DEF KnownIn
<1>4. SQ(m) = M
  BY <1>1, <1>3 DEF SQ
<1> QED
  BY <1>3, <1>4 DEF SOK

(* of the free descriptors,                                                *)
LEMMA FFrom ==
  ASSUME NEW m, NEW M, Listed(FNodes, FHead, Semd, m, M)
  PROVE  FQ(m) = M /\ FOK(m)
<1>1. M = [h \in FHead |-> list_for_each(m, h)]
  BY ListedHeads
<1>2. FQ(m) = M
  BY <1>1 DEF FQ
<1> QED
  BY <1>2 DEF FOK

(* and of the buckets.                                                     *)
LEMMA HFrom ==
  ASSUME NEW m, NEW M, Strands(Buckets, Semd, m, M, {})
  PROVE  HQ(m) = M /\ HOK(m)
<1>1. M = [h \in Buckets |-> hlist_for_each(m, h)]
  BY Buckets_Semd, HHashed
<1>2. HQ(m) = M
  BY <1>1 DEF HQ
<1> QED
  BY <1>2 DEF HOK

-----------------------------------------------------------------------------
(* The tables at the start *)

(* Static memory has no lists.                                             *)
NoLists == [g \in {} |-> <<>>]

(* Memory of zeroes has no lists.                                          *)
LEMMA StaticListed ==
  ASSUME NEW N, IsFiniteSet(N), NULL \notin N
  PROVE  Listed(N, {}, {}, [next |-> Zero(N), prev |-> Zero(N)], NoLists)
<1> DEFINE m == [next |-> Zero(N), prev |-> Zero(N)]
<1>1. m \in Mem(N) /\ \A y \in N : m.next[y] = NULL
  BY DEF Mem, Zero
<1>2. NoLists \in [{} -> Seq({})]
  BY DEF NoLists
<1> HIDE DEF m
<1>3. Listed(N, {}, {}, m, NoLists)
  BY <1>1, <1>2 DEF Listed
<1> QED
  BY <1>3 DEF m

(* A table that lists a set.                                               *)
Covers(table, S) == table \in Seq(S) /\ IsInjective(table) /\ S \subseteq ToSet(table)

(* An order of the entries of a table lists them all.                      *)
LEMMA TablesCover ==
  ASSUME NEW S, IsFiniteSet(S), NEW t \in Tables(S)
  PROVE  Covers(t, S)
<1> DEFINE n == Cardinality(S)
           I == 1 .. n
<1>1. n \in Nat
  BY FS_CardinalityType
<1>2. t \in [I -> S] /\ IsInjective(t)
  BY DEF Tables
<1>3. t \in Seq(S) /\ Len(t) = n
  <2> HIDE DEF n
  <2> QED
    BY <1>1, <1>2
<1>4. Cardinality(I) = n /\ IsFiniteSet(I)
  <2>1. 1 \in Int /\ n \in Int
    BY <1>1
  <2> HIDE DEF n
  <2>2. IsFiniteSet(1 .. n) /\ Cardinality(1 .. n) = IF 1 > n THEN 0 ELSE n - 1 + 1
    BY <2>1, FS_Interval
  <2> QED
    BY <1>1, <2>2
<1>5. t \in Injection(I, S)
  BY <1>2 DEF Injection
<1> HIDE DEF I
<1>6. Cardinality(I) = Cardinality(S)
  BY <1>4
<1>7. t \in Surjection(I, S)
  BY <1>5, <1>6, FS_Injection
<1>8. S \subseteq ToSet(t)
  BY <1>2, <1>7 DEF Surjection, ToSet
<1> QED
  BY <1>2, <1>3, <1>8 DEF Covers

(* All the entries of a table are in the list they are added to.           *)
LEMMA AddAllListed ==
  ASSUME NEW N, NEW H, NEW m, NEW L, Listed(N, H, {}, m, L), NEW h \in H,
         NEW S \in SUBSET (N \ H), NEW table, Covers(table, S)
  PROVE  \E M : /\ Listed(N, H, S, AddAll(m, table, h), M) /\ ToSet(M[h]) = S
                /\ \A g \in H : g # h => M[g] = L[g]
<1> DEFINE n == Len(table)
           a(i) == Added(m, table, h, n)[i]
           In(i) == {table[j] : j \in 1 .. i}
           OK(i) == \E M : /\ Listed(N, H, In(i), a(i), M) /\ ToSet(M[h]) = In(i)
                           /\ \A g \in H : g # h => M[g] = L[g]
           Bad == {i \in 0 .. n : ~ OK(i)}
<1>1. /\ n \in Nat /\ \A i, j \in 1 .. n : table[i] = table[j] => i = j
      /\ \A j \in 1 .. n : table[j] \in S
      /\ In(n) = S
  <2>1. table \in Seq(S) /\ IsInjective(table) /\ S \subseteq ToSet(table)
    BY DEF Covers
  <2>2. n \in Nat /\ DOMAIN table = 1 .. n /\ \A j \in 1 .. n : table[j] \in S
    BY <2>1
  <2> HIDE DEF n
  <2>3. \A i, j \in 1 .. n : table[i] = table[j] => i = j
    BY <2>1, <2>2 DEF IsInjective
  <2>4. In(n) = S
    BY <2>1, <2>2 DEF ToSet
  <2> QED
    BY <2>2, <2>3, <2>4
<1>2. AddAll(m, table, h) = a(n)
  BY DEF AddAll, Added
<1>3. a(0) = m
  <2>1. 0 \in 0 .. n
    BY <1>1
  <2> QED
    BY <1>1, <2>1, AddedRule
<1>4. \A i \in 1 .. n : a(i) = list_add(a(i - 1), table[i], h)
  <2> TAKE i \in 1 .. n
  <2>1. i \in 0 .. n /\ i # 0
    BY <1>1
  <2> QED
    BY <1>1, <2>1, AddedRule
<1> HIDE DEF a, n
<1>5. OK(0)
  <2>1. In(0) = {}
    OBVIOUS
  <2>2. L[h] \in Seq({})
    BY ListedEach
  <2>3. ToSet(L[h]) = {}
    BY <2>2 DEF ToSet
  <2> HIDE DEF In
  <2> QED
    BY <1>3, <2>1, <2>3
<1>6. Bad = {}
  <2> SUFFICES ASSUME Bad # {} PROVE FALSE
    OBVIOUS
  <2>1. PICK i \in Bad : \A j \in Bad : i <= j
    <3>1. Bad \in SUBSET Nat
      BY <1>1
    <3> HIDE DEF Bad
    <3> QED
      BY <3>1, NatMin
  <2>2. i \in 1 .. n /\ i - 1 \in 0 .. n /\ ~ (i <= i - 1) /\ ~ OK(i)
    <3> HIDE DEF OK
    <3> QED
      BY <1>1, <1>5, <2>1
  <2>3. OK(i - 1)
    <3> HIDE DEF OK
    <3> QED
      BY <2>1, <2>2
  <2> DEFINE x == table[i]
             E == In(i - 1)
             b == a(i - 1)
  <2>4. x \in N \ H /\ x \notin E /\ In(i) = E \cup {x}
    <3>1. x \in S /\ \A j \in 1 .. i - 1 : table[j] # x
      BY <1>1, <2>2
    <3>2. 1 .. i = (1 .. i - 1) \cup {i}
      BY <1>1, <2>2
    <3> QED
      BY <3>1, <3>2
  <2>5. a(i) = list_add(b, x, h)
    BY <1>4, <2>2
  <2>6. PICK M : Listed(N, H, E, b, M) /\ ToSet(M[h]) = E /\ \A g \in H : g # h => M[g] = L[g]
    BY <2>3
  <2> HIDE DEF x, E, b, In
  <2>7. OffAll(H, M, x)
    BY <2>4, <2>6, ListedEach DEF OffAll
  <2> DEFINE O == [M EXCEPT ![h] = <<x>> \o M[h]]
  <2>8. Listed(N, H, E \cup {x}, list_add(b, x, h), O)
    BY <2>4, <2>6, <2>7, ListedAdd
  <2>9. M \in [H -> Seq(E)] /\ M[h] \in Seq(E)
    BY <2>6 DEF Listed
  <2>10. ToSet(<<x>> \o M[h]) = {x} \cup ToSet(M[h])
    <3> DEFINE A == E \cup {x}
               s == M[h]
    <3>1. s \in Seq(A) /\ x \in A
      BY <2>9
    <3> HIDE DEF s, A
    <3>2. ToSet(<<x>> \o s) = {x} \cup ToSet(s)
      BY <3>1, PushStack
    <3> QED
      BY <3>2 DEF s
  <2>11. O[h] = <<x>> \o M[h] /\ \A g \in H : g # h => O[g] = L[g]
    BY <2>6, <2>9
  <2> HIDE DEF O
  <2>12. OK(i)
    BY <2>4, <2>5, <2>6, <2>8, <2>10, <2>11
  <2> QED
    BY <2>2, <2>12
<1>7. OK(n)
  <2> HIDE DEF OK
  <2>1. n \in 0 .. n
    BY <1>1
  <2> QED
    BY <1>6, <2>1
<1> QED
  BY <1>1, <1>2, <1>7

-----------------------------------------------------------------------------
(* The invariant *)

Hash(s) == hash_32(s, HASH_BITS)
InBuckets(L) == {d \in Semd : \E b \in Buckets : d \in ToSet(L[b])}

KeyTypes(key, a) == key \in [Semd -> SemKey \cup {NULL}] /\ a \in [Pcb -> SemKey \cup {NULL}]

(* A descriptor is in the bucket of its key, and has a queue of processes  *)
(* that are blocked on that key.                                           *)
Hashed(Q, L, key, a) ==
  \A d \in InBuckets(L) :
    /\ key[d] \in SemKey /\ d \in ToSet(L[Hash(key[d])])
    /\ d \in DOMAIN Q /\ Q[d] # <<>>
    /\ \A p \in ToSet(Q[d]) : p \in Pcb /\ a[p] = key[d]
KeysDistinct(L, key) == \A d, e \in InBuckets(L) : key[d] = key[e] => d = e

(* The others are free, and nobody is in their queues.                     *)
Unhashed(Q, F, L) ==
  /\ ToSet(F) = Semd \ InBuckets(L)
  /\ \A d \in (DOMAIN Q \cap Semd) \ InBuckets(L) : Q[d] = <<>>
BlockedQueued(Q, L, a) ==
  \A p \in Pcb : a[p] # NULL => \E d \in InBuckets(L) : p \in ToSet(Q[d])

Sems(Q, F, L, key, a) ==
  /\ KeyTypes(key, a) /\ Hashed(Q, L, key, a) /\ KeysDistinct(L, key)
  /\ Unhashed(Q, F, L) /\ BlockedQueued(Q, L, a)

(* A child has its parent; a free PCB is neither parent nor child.         *)
Tree(fr, C, K, par) ==
  /\ par \in [Pcb -> K \cup {NULL}]
  /\ \A q \in K : \A c \in ToSet(C[p_child(q)]) : par[c] = q
  /\ \A p \in ToSet(fr) : /\ p \in K => C[p_child(p)] = <<>>
                          /\ \A q \in K : p \notin ToSet(C[p_child(q)])

SemsOK == Sems(PQ(p_list), FQ(s_freelink)[semdFree_h], HQ(s_link), s_key, p_semAdd)
TreeOK == Tree(PQ(p_list)[pcbFree_h], SQ(p_sib), KnownIn(p_sib), p_parent)

IInv == /\ POK(p_list) /\ SOK(p_sib) /\ FOK(s_freelink) /\ HOK(s_link)
        /\ SemsOK /\ TreeOK

-----------------------------------------------------------------------------
(* The queue of a semaphore *)

Owned(L, key, s) == \E d \in InBuckets(L) : key[d] = s
Served(Q, L, key) ==
  [s \in SemKey |-> IF Owned(L, key, s) THEN Q[CHOOSE d \in InBuckets(L) : key[d] = s] ELSE <<>>]

(* The queue of a semaphore is the one of its descriptor, if it has one.   *)
LEMMA ServedIs ==
  ASSUME NEW Q, NEW L, NEW key, KeysDistinct(L, key)
  PROVE  /\ \A d \in InBuckets(L) : key[d] \in SemKey => Served(Q, L, key)[key[d]] = Q[d]
         /\ \A s \in SemKey : ~ Owned(L, key, s) => Served(Q, L, key)[s] = <<>>
<1>1. ASSUME NEW d \in InBuckets(L), key[d] \in SemKey
      PROVE  Served(Q, L, key)[key[d]] = Q[d]
  <2> DEFINE c == CHOOSE e \in InBuckets(L) : key[e] = key[d]
  <2>1. c \in InBuckets(L) /\ key[c] = key[d]
    OBVIOUS
  <2>2. c = d
    BY <2>1 DEF KeysDistinct
  <2>3. Owned(L, key, key[d])
    BY DEF Owned
  <2>4. Served(Q, L, key)[key[d]] = Q[c]
    BY <1>1, <2>3 DEF Served
  <2> QED
    BY <2>2, <2>4
<1>2. \A s \in SemKey : ~ Owned(L, key, s) => Served(Q, L, key)[s] = <<>>
  BY DEF Served
<1> QED
  BY <1>1, <1>2

(* The descriptor serves its key.                                          *)
LEMMA ServedBy ==
  ASSUME NEW Q, NEW L, NEW key, KeysDistinct(L, key),
         NEW d \in InBuckets(L), NEW s \in SemKey, key[d] = s
  PROVE  Served(Q, L, key)[s] = Q[d]
  BY ServedIs

(* Two views that differ at most at one key.                               *)
OneKey(Q, L, key, R, M, kez, s, t) ==
  /\ KeysDistinct(L, key) /\ KeysDistinct(M, kez)
  /\ \A d \in InBuckets(L) : key[d] \in SemKey
  /\ Served(R, M, kez)[s] = t
  /\ \A d \in InBuckets(L) : key[d] # s => d \in InBuckets(M) /\ kez[d] = key[d] /\ R[d] = Q[d]
  /\ \A d \in InBuckets(M) : kez[d] # s => d \in InBuckets(L) /\ kez[d] = key[d]

(* Then they differ at that key only.                                      *)
LEMMA ServedExcept ==
  ASSUME NEW Q, NEW L, NEW key, NEW R, NEW M, NEW kez, NEW s \in SemKey, NEW t,
         OneKey(Q, L, key, R, M, kez, s, t)
  PROVE  Served(R, M, kez) = SetAt(Served(Q, L, key), s, t)
<1>0. /\ KeysDistinct(L, key) /\ KeysDistinct(M, kez)
      /\ \A d \in InBuckets(L) : key[d] \in SemKey
      /\ Served(R, M, kez)[s] = t
      /\ \A d \in InBuckets(L) : key[d] # s => d \in InBuckets(M) /\ kez[d] = key[d] /\ R[d] = Q[d]
      /\ \A d \in InBuckets(M) : kez[d] # s => d \in InBuckets(L) /\ kez[d] = key[d]
  BY DEF OneKey
<1> DEFINE f == Served(Q, L, key)
           g == Served(R, M, kez)
<1>1. ASSUME NEW u \in SemKey, u # s
      PROVE  g[u] = f[u]
  <2>1. CASE Owned(L, key, u)
    <3>1. PICK d \in InBuckets(L) : key[d] = u
      BY <2>1 DEF Owned
    <3>2. d \in InBuckets(M) /\ kez[d] = u /\ R[d] = Q[d]
      BY <1>0, <1>1, <3>1
    <3>3. f[u] = Q[d] /\ g[u] = R[d]
      BY <1>0, <3>1, <3>2, ServedIs
    <3> QED
      BY <3>2, <3>3
  <2>2. CASE ~ Owned(L, key, u)
    <3>1. ~ Owned(M, kez, u)
      BY <1>0, <1>1, <2>2 DEF Owned
    <3>2. f[u] = <<>> /\ g[u] = <<>>
      BY <1>0, <2>2, <3>1, ServedIs
    <3> QED
      BY <3>2
  <2> QED
    BY <2>1, <2>2
<1>2. f = [u \in SemKey |-> f[u]] /\ g = [u \in SemKey |-> g[u]] /\ g[s] = t
  BY <1>0 DEF Served
<1> HIDE DEF f, g
<1>3. g = [f EXCEPT ![s] = t]
  <2>1. g = [u \in SemKey |-> IF u = s THEN t ELSE f[u]]
    BY <1>1, <1>2
  <2>2. [f EXCEPT ![s] = t] = [u \in SemKey |-> IF u = s THEN t ELSE f[u]]
    BY <1>2
  <2> QED
    BY <2>1, <2>2
<1> QED
  BY <1>3 DEF f, g, SetAt

(* Who is not blocked is in no queue of a semaphore.                       *)
LEMMA NotBlocked ==
  ASSUME NEW Q, NEW F, NEW L, NEW key, NEW a, Sems(Q, F, L, key, a), NEW p \in Pcb
  PROVE  /\ a[p] = NULL => \A d \in DOMAIN Q \cap Semd : p \notin ToSet(Q[d])
         /\ a[p] # NULL => \E d \in InBuckets(L) : key[d] = a[p] /\ p \in ToSet(Q[d])
<1>1. NULL \notin SemKey
  BY Apartness
<1>2. \A d \in InBuckets(L) : key[d] \in SemKey /\ \A q \in ToSet(Q[d]) : q \in Pcb /\ a[q] = key[d]
  BY DEF Sems, Hashed
<1>3. \A d \in (DOMAIN Q \cap Semd) \ InBuckets(L) : Q[d] = <<>>
  BY DEF Sems, Unhashed
<1>4. ASSUME NEW d \in DOMAIN Q \cap Semd, a[p] = NULL
      PROVE  p \notin ToSet(Q[d])
  <2>1. CASE d \in InBuckets(L)
    BY <1>1, <1>2, <1>4, <2>1
  <2>2. CASE d \notin InBuckets(L)
    BY <1>3, <2>2, EmptyQueue
  <2> QED
    BY <2>1, <2>2
<1>5. a[p] # NULL => \E d \in InBuckets(L) : p \in ToSet(Q[d])
  BY DEF Sems, BlockedQueued
<1> QED
  BY <1>2, <1>4, <1>5

(* Only other queues change.                                               *)
LEMMA KeepSems ==
  ASSUME NEW Q, NEW F, NEW L, NEW key, NEW a, Sems(Q, F, L, key, a),
         NEW R, DOMAIN R = DOMAIN Q, \A d \in DOMAIN Q \cap Semd : R[d] = Q[d]
  PROVE  Sems(R, F, L, key, a) /\ Served(R, L, key) = Served(Q, L, key)
<1>1. InBuckets(L) \subseteq Semd
  BY DEF InBuckets
<1>2. \A d \in InBuckets(L) : d \in DOMAIN Q
  BY DEF Sems, Hashed
<1>3. \A d \in InBuckets(L) : R[d] = Q[d]
  BY <1>1, <1>2
<1>4. Sems(R, F, L, key, a)
  <2>1. Hashed(R, L, key, a)
    BY <1>3 DEF Sems, Hashed
  <2>2. Unhashed(R, F, L)
    BY DEF Sems, Unhashed
  <2>3. BlockedQueued(R, L, a)
    BY <1>3 DEF Sems, BlockedQueued
  <2> QED
    BY <2>1, <2>2, <2>3 DEF Sems
<1>5. Served(R, L, key) = Served(Q, L, key)
  <2>1. KeysDistinct(L, key) /\ \A d \in InBuckets(L) : key[d] \in SemKey
    BY DEF Sems, Hashed
  <2>2. ASSUME NEW s \in SemKey
        PROVE  Served(R, L, key)[s] = Served(Q, L, key)[s]
    <3>1. CASE Owned(L, key, s)
      <4>1. PICK d \in InBuckets(L) : key[d] = s
        BY <3>1 DEF Owned
      <4>2. Served(R, L, key)[key[d]] = R[d] /\ Served(Q, L, key)[key[d]] = Q[d]
        BY <2>1, ServedIs
      <4> QED
        BY <4>1, <4>2, <1>3
    <3>2. CASE ~ Owned(L, key, s)
      <4>1. Served(R, L, key)[s] = <<>> /\ Served(Q, L, key)[s] = <<>>
        BY <2>1, <3>2, ServedIs
      <4> QED
        BY <4>1
    <3> QED
      BY <3>1, <3>2
  <2>3. /\ Served(R, L, key) = [s \in SemKey |-> Served(R, L, key)[s]]
        /\ Served(Q, L, key) = [s \in SemKey |-> Served(Q, L, key)[s]]
    BY DEF Served
  <2> QED
    BY <2>2, <2>3
<1> QED
  BY <1>4, <1>5

(* The semaphore of one process changes.                                   *)
Assigned(a, b, p, s) ==
  /\ b \in [Pcb -> SemKey \cup {NULL}]
  /\ b[p] = s /\ \A q \in Pcb : q # p => b[q] = a[q]

(* An assignment does that.                                                *)
LEMMA Assigns ==
  ASSUME NEW a \in [Pcb -> SemKey \cup {NULL}], NEW p \in Pcb, NEW s \in SemKey \cup {NULL}
  PROVE  Assigned(a, [a EXCEPT ![p] = s], p, s)
  BY DEF Assigned

(* The descriptors after a step: s has the queue t, and the other          *)
(* semaphores have theirs.                                                 *)
SemMoved(Q, F, L, key, a, R, G, M, kez, b, s, t) ==
  Sems(Q, F, L, key, a) => /\ Sems(R, G, M, kez, b)
                           /\ Served(R, M, kez) = SetAt(Served(Q, L, key), s, t)

(* One queue changes, and the ones of the other descriptors stay.          *)
QueueAt(Q, R, d, t) ==
  R[d] = t /\ \A e \in DOMAIN Q \cap Semd : e # d => R[e] = Q[e]

(* A process joins the queue of a hashed descriptor.                       *)
LEMMA JoinSem ==
  ASSUME NEW Q, NEW F, NEW L, NEW key, NEW a, Sems(Q, F, L, key, a),
         NEW d, d \in InBuckets(L), Q[d] \in Seq(Pcb), NEW p \in Pcb, a[p] = NULL,
         NEW R, DOMAIN R = DOMAIN Q, QueueAt(Q, R, d, Append(Q[d], p)),
         NEW b, Assigned(a, b, p, key[d])
  PROVE  SemMoved(Q, F, L, key, a, R, F, L, key, b, key[d], Append(Q[d], p))
<1>20. R[d] = Append(Q[d], p) /\ \A e \in DOMAIN Q \cap Semd : e # d => R[e] = Q[e]
  BY DEF QueueAt
<1> DEFINE t == Append(Q[d], p)
           s == key[d]
<1>1. /\ KeyTypes(key, a) /\ Hashed(Q, L, key, a) /\ KeysDistinct(L, key)
      /\ Unhashed(Q, F, L) /\ BlockedQueued(Q, L, a)
  BY DEF Sems
<1>2. s \in SemKey /\ d \in DOMAIN Q /\ d \in Semd /\ InBuckets(L) \subseteq Semd
  BY <1>1 DEF Hashed, InBuckets
<1>3. ToSet(t) = ToSet(Q[d]) \cup {p} /\ t # <<>>
  <2> DEFINE q == Q[d]
  <2>1. q \in Seq(Pcb)
    OBVIOUS
  <2> HIDE DEF q
  <2>2. ToSet(Append(q, p)) = ToSet(q) \cup {p} /\ Append(q, p) # <<>>
    BY <2>1, AppendQueue
  <2> QED
    BY <2>2 DEF q
<1> HIDE DEF t
<1>4. R[d] = t
  BY <1>20 DEF t
<1>5. \A e \in InBuckets(L) : e \in DOMAIN Q /\ (e # d => R[e] = Q[e])
  BY <1>1, <1>2, <1>20 DEF Hashed
<1>6. b[p] = s /\ \A q \in Pcb : q # p => b[q] = a[q]
  BY DEF Assigned
<1>7. KeyTypes(key, b)
  BY <1>1 DEF KeyTypes, Assigned
<1>8. \A e \in InBuckets(L) : p \notin ToSet(Q[e])
  BY <1>2, <1>5, NotBlocked
<1>9. Hashed(R, L, key, b)
  <2> SUFFICES ASSUME NEW e \in InBuckets(L)
               PROVE  /\ key[e] \in SemKey /\ e \in ToSet(L[Hash(key[e])])
                      /\ e \in DOMAIN R /\ R[e] # <<>>
                      /\ \A q \in ToSet(R[e]) : q \in Pcb /\ b[q] = key[e]
    BY DEF Hashed
  <2>1. /\ key[e] \in SemKey /\ e \in ToSet(L[Hash(key[e])]) /\ e \in DOMAIN Q
        /\ Q[e] # <<>> /\ \A q \in ToSet(Q[e]) : q \in Pcb /\ a[q] = key[e]
    BY <1>1 DEF Hashed
  <2>2. \A q \in ToSet(Q[e]) : q \in Pcb /\ b[q] = key[e]
    <3>2. \A q \in ToSet(Q[e]) : b[q] = a[q]
      BY <2>1, <1>6, <1>8
    <3> QED
      BY <2>1, <3>2
  <2>3. CASE e = d
    BY <2>1, <2>2, <2>3, <1>3, <1>4, <1>6
  <2>4. CASE e # d
    BY <2>1, <2>2, <2>4, <1>5
  <2> QED
    BY <2>3, <2>4
<1>10. Unhashed(R, F, L)
  BY <1>1, <1>20 DEF Unhashed
<1>11. BlockedQueued(R, L, b)
  <2> SUFFICES ASSUME NEW q \in Pcb, b[q] # NULL
               PROVE  \E e \in InBuckets(L) : q \in ToSet(R[e])
    BY DEF BlockedQueued
  <2>1. CASE q = p
    BY <2>1, <1>3, <1>4
  <2>2. CASE q # p
    <3>1. PICK e \in InBuckets(L) : q \in ToSet(Q[e])
      BY <2>2, <1>1, <1>6 DEF BlockedQueued
    <3> QED
      BY <3>1, <1>3, <1>4, <1>5
  <2> QED
    BY <2>1, <2>2
<1>12. Served(R, L, key)[s] = t
  BY <1>1, <1>2, <1>4, ServedIs
<1>13. \A e \in InBuckets(L) : key[e] # s => R[e] = Q[e]
  BY <1>5
<1>14. \A e \in InBuckets(L) : key[e] \in SemKey
  BY <1>1 DEF Hashed
<1> HIDE DEF s
<1>16. OneKey(Q, L, key, R, L, key, s, t)
  BY <1>1, <1>12, <1>13, <1>14 DEF OneKey
<1>15. Served(R, L, key) = SetAt(Served(Q, L, key), s, t)
  <2>1. s \in SemKey
    BY <1>2
  <2> QED
    BY <2>1, <1>16, ServedExcept
<1> QED
  BY <1>1, <1>7, <1>9, <1>10, <1>11, <1>15 DEF Sems, SemMoved, s, t

(* What the buckets show.                                                  *)
BucketsOK(L) ==
  /\ L \in [Buckets -> Seq(Semd)]
  /\ \A b \in Buckets : IsInjective(L[b])
  /\ \A b, c \in Buckets : b # c => ToSet(L[b]) \cap ToSet(L[c]) = {}

(* A descriptor is pushed on a bucket, and gets a key.                     *)
PushedAt(L, M, h, d) == M[h] = <<d>> \o L[h] /\ \A c \in Buckets : c # h => M[c] = L[c]
KeyedAt(key, kez, d, s) ==
  /\ kez \in [Semd -> SemKey \cup {NULL}] /\ kez[d] = s
  /\ \A e \in Semd : e # d => kez[e] = key[e]

(* A free descriptor is hashed, with one process in its queue.             *)
LEMMA NewSem ==
  ASSUME NEW Q, NEW F, NEW L, NEW key, NEW a, Sems(Q, F, L, key, a), BucketsOK(L),
         NEW s \in SemKey, ~ Owned(L, key, s), NEW d, d \in Semd, d \notin InBuckets(L),
         NEW p \in Pcb, a[p] = NULL,
         NEW G, ToSet(G) = ToSet(F) \ {d}, NEW M, PushedAt(L, M, Hash(s), d),
         NEW kez, KeyedAt(key, kez, d, s),
         NEW R, DOMAIN R = DOMAIN Q \cup {d}, QueueAt(Q, R, d, Append(<<>>, p)),
         NEW b, Assigned(a, b, p, s)
  PROVE  SemMoved(Q, F, L, key, a, R, G, M, kez, b, s, Append(<<>>, p))
<1>30. M[Hash(s)] = <<d>> \o L[Hash(s)] /\ \A c \in Buckets : c # Hash(s) => M[c] = L[c]
  BY DEF PushedAt
<1>31. /\ kez \in [Semd -> SemKey \cup {NULL}] /\ kez[d] = s
       /\ \A e \in Semd : e # d => kez[e] = key[e]
  BY DEF KeyedAt
<1>32. R[d] = Append(<<>>, p) /\ \A e \in DOMAIN Q \cap Semd : e # d => R[e] = Q[e]
  BY DEF QueueAt
<1> DEFINE t == Append(<<>>, p)
           h == Hash(s)
           I == InBuckets(L)
<1>1. /\ KeyTypes(key, a) /\ Hashed(Q, L, key, a) /\ KeysDistinct(L, key)
      /\ Unhashed(Q, F, L) /\ BlockedQueued(Q, L, a)
  BY DEF Sems
<1>2. h \in Buckets /\ I \subseteq Semd /\ d \notin I
  BY HashInBuckets DEF Hash, InBuckets
<1>3. ToSet(t) = {p} /\ t # <<>>
  <2> DEFINE q == <<>>
  <2>1. q \in Seq(Pcb) /\ ToSet(q) = {}
    BY EmptyQueue
  <2> HIDE DEF q
  <2>2. ToSet(Append(q, p)) = ToSet(q) \cup {p} /\ Append(q, p) # <<>>
    BY <2>1, AppendQueue
  <2> QED
    BY <2>1, <2>2 DEF q
<1> HIDE DEF t, h
<1>4. R[d] = t
  BY <1>32 DEF t
<1>5. M[h] = <<d>> \o L[h] /\ \A c \in Buckets : c # h => M[c] = L[c]
  BY <1>30 DEF h
<1>6. ToSet(M[h]) = {d} \cup ToSet(L[h])
  <2> DEFINE q == L[h]
  <2>1. q \in Seq(Semd)
    BY <1>2 DEF BucketsOK
  <2> HIDE DEF q
  <2>2. ToSet(<<d>> \o q) = {d} \cup ToSet(q)
    BY <2>1, PushStack
  <2> QED
    BY <2>2, <1>5 DEF q
<1>7. InBuckets(M) = I \cup {d}
  BY <1>2, <1>5, <1>6 DEF InBuckets
<1>8. kez[d] = s /\ \A e \in Semd : e # d => kez[e] = key[e]
  BY <1>31
<1>9. \A e \in I : e # d /\ e \in Semd /\ kez[e] = key[e] /\ e \in DOMAIN Q /\ R[e] = Q[e] /\ kez[e] # s
  <2> TAKE e \in I
  <2>1. e # d /\ e \in Semd /\ kez[e] = key[e]
    BY <1>2, <1>8
  <2>2. e \in DOMAIN Q
    BY <1>1 DEF Hashed
  <2>3. R[e] = Q[e]
    BY <2>1, <2>2, <1>32
  <2>4. kez[e] # s
    BY <2>1 DEF Owned
  <2> QED
    BY <2>1, <2>2, <2>3, <2>4
<1>10. b[p] = s /\ \A q \in Pcb : q # p => b[q] = a[q]
  BY DEF Assigned
<1>11. KeyTypes(kez, b)
  BY <1>31 DEF KeyTypes, Assigned
<1>12. \A e \in I : p \notin ToSet(Q[e])
  BY <1>9, NotBlocked
<1>13. Hashed(R, M, kez, b)
  <2> SUFFICES ASSUME NEW e \in I \cup {d}
               PROVE  /\ kez[e] \in SemKey /\ e \in ToSet(M[Hash(kez[e])])
                      /\ e \in DOMAIN R /\ R[e] # <<>>
                      /\ \A q \in ToSet(R[e]) : q \in Pcb /\ b[q] = kez[e]
    BY <1>7 DEF Hashed
  <2>1. CASE e = d
    <3>1. Hash(kez[e]) = h
      BY <2>1, <1>8 DEF h
    <3> QED
      BY <2>1, <3>1, <1>3, <1>4, <1>6, <1>8, <1>10
  <2>2. CASE e \in I
    <3>1. /\ key[e] \in SemKey /\ e \in ToSet(L[Hash(key[e])]) /\ e \in DOMAIN Q
          /\ Q[e] # <<>> /\ \A q \in ToSet(Q[e]) : q \in Pcb /\ a[q] = key[e]
      BY <2>2, <1>1 DEF Hashed
    <3>2. \A q \in ToSet(Q[e]) : b[q] = a[q]
      BY <2>2, <3>1, <1>10, <1>12
    <3> DEFINE c == Hash(key[e])
    <3>3. c \in Buckets
      BY <3>1, HashInBuckets DEF Hash
    <3> HIDE DEF c
    <3>4. e \in ToSet(L[c]) => e \in ToSet(M[c])
      BY <3>3, <1>5, <1>6
    <3>5. e \in ToSet(M[Hash(key[e])])
      BY <3>1, <3>4 DEF c
    <3> QED
      BY <2>2, <3>1, <3>2, <3>5, <1>9
  <2> QED
    BY <2>1, <2>2
<1>14. KeysDistinct(M, kez)
  BY <1>1, <1>7, <1>8, <1>9 DEF KeysDistinct
<1>15. Unhashed(R, G, M)
  <2>1. ToSet(G) = Semd \ InBuckets(M)
    BY <1>1, <1>7 DEF Unhashed
  <2>2. \A e \in (DOMAIN R \cap Semd) \ InBuckets(M) : R[e] = <<>>
    BY <1>1, <1>7, <1>32 DEF Unhashed
  <2> QED
    BY <2>1, <2>2 DEF Unhashed
<1>16. BlockedQueued(R, M, b)
  <2> SUFFICES ASSUME NEW q \in Pcb, b[q] # NULL
               PROVE  \E e \in I \cup {d} : q \in ToSet(R[e])
    BY <1>7 DEF BlockedQueued
  <2>1. CASE q = p
    BY <2>1, <1>3, <1>4
  <2>2. CASE q # p
    <3>1. PICK e \in I : q \in ToSet(Q[e])
      BY <2>2, <1>1, <1>10 DEF BlockedQueued
    <3> QED
      BY <3>1, <1>9
  <2> QED
    BY <2>1, <2>2
<1>17. Served(R, M, kez)[s] = t
  <2>1. d \in InBuckets(M) /\ kez[d] = s
    BY <1>7, <1>8
  <2>2. Served(R, M, kez)[s] = R[d]
    BY <1>14, <2>1, ServedBy
  <2> QED
    BY <2>1, <2>2, <1>4
<1>18. \A e \in InBuckets(L) : key[e] # s => e \in InBuckets(M) /\ kez[e] = key[e] /\ R[e] = Q[e]
  BY <1>7, <1>9
<1>19. \A e \in InBuckets(M) : kez[e] # s => e \in InBuckets(L) /\ kez[e] = key[e]
  BY <1>7, <1>8, <1>9
<1>20. \A e \in InBuckets(L) : key[e] \in SemKey
  BY <1>1 DEF Hashed
<1> HIDE DEF I
<1>22. OneKey(Q, L, key, R, M, kez, s, t)
  BY <1>1, <1>14, <1>17, <1>18, <1>19, <1>20 DEF OneKey
<1>21. Served(R, M, kez) = SetAt(Served(Q, L, key), s, t)
  BY <1>22, ServedExcept
<1> QED
  BY <1>11, <1>13, <1>14, <1>15, <1>16, <1>21 DEF Sems, SemMoved, t

(* A process leaves the queue of a semaphore, and others stay.             *)
LEMMA LeaveSem ==
  ASSUME NEW Q, NEW F, NEW L, NEW key, NEW a, Sems(Q, F, L, key, a),
         NEW d \in InBuckets(L), NEW p \in Pcb, p \in ToSet(Q[d]),
         NEW R, DOMAIN R = DOMAIN Q, R[d] # <<>>, ToSet(R[d]) = ToSet(Q[d]) \ {p},
         \A e \in DOMAIN Q \cap Semd : e # d => R[e] = Q[e],
         NEW b, Assigned(a, b, p, NULL)
  PROVE  /\ Sems(R, F, L, key, b)
         /\ Served(R, L, key) = SetAt(Served(Q, L, key), key[d], R[d])
<1> DEFINE s == key[d]
           I == InBuckets(L)
<1>1. /\ KeyTypes(key, a) /\ Hashed(Q, L, key, a) /\ KeysDistinct(L, key)
      /\ Unhashed(Q, F, L) /\ BlockedQueued(Q, L, a)
  BY DEF Sems
<1>2. s \in SemKey /\ I \subseteq Semd /\ NULL \notin SemKey
  BY <1>1, Apartness DEF Hashed, InBuckets
<1>3. \A e \in I : /\ key[e] \in SemKey /\ e \in ToSet(L[Hash(key[e])]) /\ e \in DOMAIN Q
                   /\ Q[e] # <<>> /\ \A q \in ToSet(Q[e]) : q \in Pcb /\ a[q] = key[e]
  BY <1>1 DEF Hashed
<1>4. a[p] = s
  BY <1>3
<1>5. b[p] = NULL /\ \A q \in Pcb : q # p => b[q] = a[q]
  BY DEF Assigned
<1>6. KeyTypes(key, b)
  BY <1>1 DEF KeyTypes, Assigned
<1>7. \A e \in I : e # d => R[e] = Q[e] /\ p \notin ToSet(Q[e])
  <2> TAKE e \in I
  <2> HAVE e # d
  <2>1. key[e] # s
    BY <1>1 DEF KeysDistinct
  <2> QED
    BY <2>1, <1>2, <1>3, <1>4
<1>8. \A e \in I : p \notin ToSet(R[e]) /\ ToSet(R[e]) \subseteq ToSet(Q[e])
  BY <1>7
<1>9. Hashed(R, L, key, b)
  <2>1. \A e \in I : R[e] # <<>>
    BY <1>3, <1>7
  <2>2. \A e \in I : \A q \in ToSet(R[e]) : q # p /\ q \in Pcb /\ a[q] = key[e]
    BY <1>3, <1>8
  <2>3. \A q \in Pcb : q # p => b[q] = a[q]
    BY <1>5
  <2> QED
    BY <2>1, <2>2, <2>3, <1>3 DEF Hashed
<1>10. Unhashed(R, F, L)
  BY <1>1 DEF Unhashed
<1>11. BlockedQueued(R, L, b)
  <2> SUFFICES ASSUME NEW q \in Pcb, b[q] # NULL
               PROVE  \E e \in I : q \in ToSet(R[e])
    BY DEF BlockedQueued
  <2>1. q # p
    BY <1>5
  <2>2. PICK e \in I : q \in ToSet(Q[e])
    BY <2>1, <1>1, <1>5 DEF BlockedQueued
  <2> QED
    BY <2>1, <2>2, <1>7
<1>12. Served(R, L, key)[s] = R[d]
  BY <1>1, <1>2, ServedIs
<1>13. \A e \in InBuckets(L) : key[e] # s => R[e] = Q[e]
  BY <1>7
<1>14. \A e \in InBuckets(L) : key[e] \in SemKey
  BY <1>3
<1> HIDE DEF s, I
<1>16. OneKey(Q, L, key, R, L, key, s, R[d])
  BY <1>1, <1>12, <1>13, <1>14 DEF OneKey
<1>15. Served(R, L, key) = SetAt(Served(Q, L, key), s, R[d])
  BY <1>2, <1>16, ServedExcept
<1> QED
  BY <1>1, <1>6, <1>9, <1>10, <1>11, <1>15 DEF Sems, s

(* The last process leaves the queue, and the descriptor becomes free.     *)
LEMMA LeaveLast ==
  ASSUME NEW Q, NEW F, NEW L, NEW key, NEW a, Sems(Q, F, L, key, a), BucketsOK(L),
         NEW d \in InBuckets(L), NEW p \in Pcb, p \in ToSet(Q[d]),
         NEW R, DOMAIN R = DOMAIN Q, R[d] = <<>>, ToSet(Q[d]) = {p},
         \A e \in DOMAIN Q \cap Semd : e # d => R[e] = Q[e],
         NEW G, ToSet(G) = ToSet(F) \cup {d},
         NEW h \in Buckets, d \in ToSet(L[h]),
         NEW M, M[h] = RemoveFirst(L[h], d), \A c \in Buckets : c # h => M[c] = L[c],
         NEW b, Assigned(a, b, p, NULL)
  PROVE  /\ Sems(R, G, M, key, b)
         /\ Served(R, M, key) = SetAt(Served(Q, L, key), key[d], <<>>)
<1> DEFINE s == key[d]
           I == InBuckets(L)
<1>1. /\ KeyTypes(key, a) /\ Hashed(Q, L, key, a) /\ KeysDistinct(L, key)
      /\ Unhashed(Q, F, L) /\ BlockedQueued(Q, L, a)
  BY DEF Sems
<1>2. s \in SemKey /\ I \subseteq Semd /\ NULL \notin SemKey /\ d \in Semd
  BY <1>1, Apartness DEF Hashed, InBuckets
<1>3. \A e \in I : /\ key[e] \in SemKey /\ e \in ToSet(L[Hash(key[e])]) /\ e \in DOMAIN Q
                   /\ Q[e] # <<>> /\ \A q \in ToSet(Q[e]) : q \in Pcb /\ a[q] = key[e]
  BY <1>1 DEF Hashed
<1>4. a[p] = s
  BY <1>3
<1>5. b[p] = NULL /\ \A q \in Pcb : q # p => b[q] = a[q]
  BY DEF Assigned
<1>6. KeyTypes(key, b)
  BY <1>1 DEF KeyTypes, Assigned
<1>7. ToSet(M[h]) = ToSet(L[h]) \ {d} /\ \A c \in Buckets : c # h => M[c] = L[c]
  <2> DEFINE q == L[h]
  <2>1. q \in Seq(Semd) /\ IsInjective(q)
    BY DEF BucketsOK
  <2> HIDE DEF q
  <2>2. ToSet(RemoveFirst(q, d)) = ToSet(q) \ {d}
    BY <2>1, RemoveFirstQueue
  <2>3. M[h] = RemoveFirst(q, d)
    BY DEF q, BucketsOK
  <2>4. \A c \in Buckets : c # h => M[c] = L[c]
    BY DEF BucketsOK
  <2> QED
    BY <2>2, <2>3, <2>4 DEF q
<1>8. \A c \in Buckets : c # h => d \notin ToSet(L[c])
  BY DEF BucketsOK
<1>9. InBuckets(M) = I \ {d}
  BY <1>7, <1>8 DEF InBuckets
<1>10. \A e \in I : e # d => R[e] = Q[e] /\ p \notin ToSet(Q[e]) /\ key[e] # s
  <2> TAKE e \in I
  <2> HAVE e # d
  <2>1. key[e] # s
    BY <1>1 DEF KeysDistinct
  <2> QED
    BY <2>1, <1>2, <1>3, <1>4
<1>11. Hashed(R, M, key, b)
  <2> SUFFICES ASSUME NEW e \in I \ {d}
               PROVE  /\ key[e] \in SemKey /\ e \in ToSet(M[Hash(key[e])])
                      /\ e \in DOMAIN R /\ R[e] # <<>>
                      /\ \A q \in ToSet(R[e]) : q \in Pcb /\ b[q] = key[e]
    BY <1>9 DEF Hashed
  <2> DEFINE c == Hash(key[e])
  <2>1. c \in Buckets /\ e \in ToSet(L[c])
    BY <1>3, HashInBuckets DEF Hash
  <2> HIDE DEF c
  <2>2. e \in ToSet(M[c])
    BY <2>1, <1>7
  <2>3. \A q \in ToSet(Q[e]) : q # p /\ q \in Pcb /\ a[q] = key[e]
    BY <1>3, <1>10
  <2> QED
    BY <2>2, <2>3, <1>3, <1>5, <1>10 DEF c
<1>12. KeysDistinct(M, key)
  BY <1>1, <1>9 DEF KeysDistinct
<1>13. Unhashed(R, G, M)
  <2>1. ToSet(G) = Semd \ InBuckets(M)
    BY <1>1, <1>2, <1>9 DEF Unhashed
  <2>2. \A e \in (DOMAIN R \cap Semd) \ InBuckets(M) : R[e] = <<>>
    BY <1>1, <1>9 DEF Unhashed
  <2> QED
    BY <2>1, <2>2 DEF Unhashed
<1>14. BlockedQueued(R, M, b)
  <2> SUFFICES ASSUME NEW q \in Pcb, b[q] # NULL
               PROVE  \E e \in I \ {d} : q \in ToSet(R[e])
    BY <1>9 DEF BlockedQueued
  <2>1. q # p
    BY <1>5
  <2>2. PICK e \in I : q \in ToSet(Q[e])
    BY <2>1, <1>1, <1>5 DEF BlockedQueued
  <2> QED
    BY <2>1, <2>2, <1>10
<1>15. Served(R, M, key)[s] = <<>>
  <2>1. ~ Owned(M, key, s)
    BY <1>9, <1>10 DEF Owned
  <2> QED
    BY <2>1, <1>2, <1>12, ServedIs
<1>16. \A e \in InBuckets(L) : key[e] # s => e \in InBuckets(M) /\ R[e] = Q[e]
  BY <1>9, <1>10
<1>17. \A e \in InBuckets(M) : e \in InBuckets(L)
  BY <1>9
<1>18. \A e \in InBuckets(L) : key[e] \in SemKey
  BY <1>3
<1> HIDE DEF s, I
<1>20. OneKey(Q, L, key, R, M, key, s, <<>>)
  BY <1>1, <1>12, <1>15, <1>16, <1>17, <1>18 DEF OneKey
<1>19. Served(R, M, key) = SetAt(Served(Q, L, key), s, <<>>)
  BY <1>2, <1>20, ServedExcept
<1> QED
  BY <1>6, <1>11, <1>12, <1>13, <1>14, <1>19 DEF Sems, s

-----------------------------------------------------------------------------
(* What the buckets show *)

(* The buckets, walked, hold the descriptors that are hashed, each once.   *)
LEMMA HBuckets ==
  ASSUME NEW h, HOK(h)
  PROVE  /\ BucketsOK(HQ(h))
         /\ \A b \in Buckets : hlist_for_each(h, b) = HQ(h)[b] /\ ToSet(HQ(h)[b]) \subseteq InBuckets(HQ(h))
         /\ \A d \in Semd : ~ hlist_unhashed(h, d) <=> d \in InBuckets(HQ(h))
         /\ InBuckets(HQ(h)) \subseteq Semd
<1> DEFINE L == HQ(h)
<1>1. Strands(Buckets, Semd, h, L, {}) /\ HSets(Buckets, Semd)
  BY Buckets_Semd DEF HOK
<1> HIDE DEF L
<1>2. /\ \A n \in Semd : ~ hlist_unhashed(h, n) <=> InSome(L, Buckets, n)
      /\ \A b \in Buckets : /\ L[b] \in Seq(Semd) /\ ToSet(L[b]) \subseteq Semd /\ IsInjective(L[b])
                            /\ hlist_for_each(h, b) = L[b]
      /\ \A n \in Semd : InSome(L, Buckets, n) <=> \E b \in Buckets : n \in ToSet(L[b])
      /\ \A g, b \in Buckets : g # b => ToSet(L[g]) \cap ToSet(L[b]) = {}
      /\ L = [b \in Buckets |-> hlist_for_each(h, b)]
  <2>1. /\ \A n \in Semd : ~ hlist_unhashed(h, n) <=> InSome(L, Buckets, n)
        /\ \A n \in Semd : InSome(L, Buckets, n) <=> \E b \in Buckets : n \in ToSet(L[b])
    BY <1>1, HHashed
  <2>2. \A b \in Buckets : /\ L[b] \in Seq(Semd) /\ ToSet(L[b]) \subseteq Semd /\ IsInjective(L[b])
                            /\ hlist_for_each(h, b) = L[b]
    BY <1>1, HHashed
  <2>3. \A g, b \in Buckets : g # b => ToSet(L[g]) \cap ToSet(L[b]) = {}
    BY <1>1, HHashed
  <2>4. L = [b \in Buckets |-> hlist_for_each(h, b)]
    BY <1>1, HHashed
  <2> QED
    BY <2>1, <2>2, <2>3, <2>4
<1>3. BucketsOK(L)
  <2>1. L \in [Buckets -> Seq(Semd)]
    BY <1>2
  <2> QED
    BY <1>2, <2>1 DEF BucketsOK
<1> QED
  BY <1>2, <1>3 DEF L, InBuckets

(* find_sem, of the buckets h.                                             *)
FindIn(h, key, s) ==
  LET bucket == hlist_for_each(h, Hash(s))
      found == {i \in DOMAIN bucket : key[bucket[i]] = s}
  IN  IF found = {} THEN NULL ELSE bucket[Min(found)]

(* The smallest number of a set is one of its numbers.                     *)
LEMMA FindNat ==
  ASSUME NEW S \in SUBSET Nat, S # {}
  PROVE  Min(S) \in S
<1>1. \E n \in S : \A m \in S : n <= m
  BY NatMin
<1> QED
  BY <1>1 DEF Min

(* find_sem finds the descriptor of a key, past the collisions.            *)
LEMMA FindOwner ==
  ASSUME NEW h, HOK(h), NEW Q, NEW F, NEW key, NEW a, Sems(Q, F, HQ(h), key, a),
         NEW s \in SemKey
  PROVE  /\ \A d \in InBuckets(HQ(h)) : key[d] = s => FindIn(h, key, s) = d
         /\ FindIn(h, key, s) # NULL =>
              FindIn(h, key, s) \in InBuckets(HQ(h)) /\ key[FindIn(h, key, s)] = s
         /\ FindIn(h, key, s) = NULL <=> ~ Owned(HQ(h), key, s)
<1> DEFINE L == HQ(h)
           bucket == L[Hash(s)]
           found == {i \in DOMAIN bucket : key[bucket[i]] = s}
           I == InBuckets(L)
           f == FindIn(h, key, s)
<1>1. Hash(s) \in Buckets
  BY HashInBuckets DEF Hash
<1>2. BucketsOK(L) /\ hlist_for_each(h, Hash(s)) = bucket /\ ToSet(bucket) \subseteq I /\ I \subseteq Semd
  BY <1>1, HBuckets
<1>3. bucket \in Seq(Semd)
  BY <1>1, <1>2 DEF BucketsOK
<1>4. KeysDistinct(L, key) /\ \A d \in I : d \in ToSet(L[Hash(key[d])])
  BY DEF Sems, Hashed
<1>5. f = IF found = {} THEN NULL ELSE bucket[Min(found)]
  BY <1>2 DEF FindIn
<1>6. NULL \notin Semd
  BY Apartness
<1>7. \A i \in DOMAIN bucket : bucket[i] \in ToSet(bucket)
  BY DEF ToSet
<1>12. ToSet(bucket) = {bucket[i] : i \in DOMAIN bucket} /\ DOMAIN bucket \in SUBSET Nat
  <2> DEFINE q == bucket
  <2>1. q \in Seq(Semd)
    BY <1>3
  <2> HIDE DEF q
  <2>2. DOMAIN q = 1 .. Len(q) /\ Len(q) \in Nat
    BY <2>1
  <2>3. DOMAIN q \in SUBSET Nat
    BY <2>2
  <2> QED
    BY <2>3 DEF ToSet, q
<1> HIDE DEF f, I
<1>8. found # {} => f \in I /\ key[f] = s
  <2> HAVE found # {}
  <2>1. found \in SUBSET Nat
    BY <1>12
  <2>2. Min(found) \in found
    <3> HIDE DEF found
    <3> QED
      BY <2>1, FindNat
  <2> DEFINE i == Min(found)
  <2>3. i \in found /\ f = bucket[i]
    BY <1>5, <2>2
  <2> HIDE DEF i
  <2> QED
    BY <2>3, <1>2, <1>7
<1>9. \A d \in I : key[d] = s => found # {}
  <2> TAKE d \in I
  <2> HAVE key[d] = s
  <2>1. d \in ToSet(bucket)
    BY <1>4
  <2>2. \E i \in DOMAIN bucket : bucket[i] = d
    BY <1>12, <2>1
  <2> QED
    BY <2>2
<1> HIDE DEF found, bucket
<1>10. \A d \in I : key[d] = s => f = d
  BY <1>4, <1>8, <1>9 DEF KeysDistinct, I
<1>11. f # NULL => found # {}
  BY <1>5
<1>13. f = NULL <=> ~ Owned(L, key, s)
  BY <1>2, <1>5, <1>6, <1>8, <1>9, <1>10 DEF Owned, I
<1> QED
  BY <1>8, <1>10, <1>11, <1>13 DEF f, I

-----------------------------------------------------------------------------
(* The view *)

Procq(m, h, key) ==
  [s \in SemKey |-> IF FindIn(h, key, s) = NULL THEN <<>> ELSE list_for_each(m, FindIn(h, key, s))]
Kids(m) == [p \in Pcb |-> IF p \in KnownIn(m) THEN list_for_each(m, p_child(p)) ELSE <<>>]
KidsOf(K, C) == [p \in Pcb |-> IF p \in K THEN C[p_child(p)] ELSE <<>>]

(* Seen through find_sem, the queues are those of the descriptors.         *)
LEMMA ProcqServed ==
  ASSUME NEW m, NEW h, POK(m), HOK(h), NEW F, NEW key, NEW a, Sems(PQ(m), F, HQ(h), key, a)
  PROVE  Procq(m, h, key) = Served(PQ(m), HQ(h), key)
<1> DEFINE L == HQ(h)
           Q == PQ(m)
<1>1. KeysDistinct(L, key) /\ \A d \in InBuckets(L) : d \in DOMAIN Q /\ key[d] \in SemKey
  BY DEF Sems, Hashed
<1>2. ASSUME NEW s \in SemKey
      PROVE  Procq(m, h, key)[s] = Served(Q, L, key)[s]
  <2> DEFINE f == FindIn(h, key, s)
  <2>0. Procq(m, h, key)[s] = IF f = NULL THEN <<>> ELSE list_for_each(m, f)
    BY DEF Procq
  <2>1. /\ f # NULL => f \in InBuckets(L) /\ key[f] = s
        /\ f = NULL <=> ~ Owned(L, key, s)
    BY FindOwner
  <2> HIDE DEF f
  <2>2. CASE f = NULL
    <3>1. Served(Q, L, key)[s] = <<>>
      BY <2>1, <2>2, <1>1, ServedIs
    <3> QED
      BY <3>1, <2>0, <2>2
  <2>3. CASE f # NULL
    <3>1. Served(Q, L, key)[s] = Q[f]
      BY <2>1, <2>3, <1>1, ServedBy
    <3>2. f \in DOMAIN Q
      BY <2>1, <2>3, <1>1
    <3>3. Q[f] = list_for_each(m, f)
      BY <3>2 DEF PQ
    <3> QED
      BY <3>1, <3>3, <2>0, <2>3
  <2> QED
    BY <2>2, <2>3
<1>3. /\ Procq(m, h, key) = [s \in SemKey |-> Procq(m, h, key)[s]]
      /\ Served(Q, L, key) = [s \in SemKey |-> Served(Q, L, key)[s]]
  BY DEF Procq, Served
<1> HIDE DEF Q, L
<1> QED
  BY <1>2, <1>3 DEF Q, L

(* The children of a PCB are in its list, once it has been allocated.      *)
LEMMA KidsSeen ==
  ASSUME NEW m
  PROVE  Kids(m) = KidsOf(KnownIn(m), SQ(m))
<1>1. \A p \in KnownIn(m) : p_child(p) \in Childs(KnownIn(m))
  BY DEF Childs
<1>2. \A p \in KnownIn(m) : SQ(m)[p_child(p)] = list_for_each(m, p_child(p))
  BY <1>1 DEF SQ
<1> QED
  BY <1>2 DEF Kids, KidsOf

(* The variables of the abstract specification.                            *)
AFree == list_for_each(p_list, pcbFree_h)
AReady == list_for_each(p_list, g_ready_queue)
AProcq == [s \in SemKey |-> Queue(s)]
AChild == [p \in Pcb |-> Children(p)]

(* What Queues sees, before and after a step, is a function of the         *)
(* memories.                                                               *)
LEMMA Views ==
  /\ AProcq = Procq(p_list, s_link, s_key) /\ AChild = Kids(p_sib)
  /\ AProcq' = Procq(p_list', s_link', s_key') /\ AChild' = Kids(p_sib')
  /\ AFree = list_for_each(p_list, pcbFree_h) /\ AFree' = list_for_each(p_list', pcbFree_h)
  /\ AReady = list_for_each(p_list, g_ready_queue) /\ AReady' = list_for_each(p_list', g_ready_queue)
<1>1. \A s : Queue(s) = IF FindIn(s_link, s_key, s) = NULL THEN <<>>
                        ELSE list_for_each(p_list, FindIn(s_link, s_key, s))
  BY DEF Queue, find_sem, FindIn, Hash
<1>2. \A s : Queue(s)' = IF FindIn(s_link', s_key', s) = NULL THEN <<>>
                        ELSE list_for_each(p_list', FindIn(s_link', s_key', s))
  BY DEF Queue, find_sem, FindIn, Hash
<1>3. AProcq = Procq(p_list, s_link, s_key)
  BY <1>1 DEF AProcq, Procq
<1>4. AProcq' = Procq(p_list', s_link', s_key')
  BY <1>2 DEF AProcq, Procq
<1>5. \A p \in Pcb : /\ Known(p) <=> p \in KnownIn(p_sib)
                     /\ Known(p)' <=> p \in KnownIn(p_sib')
  BY DEF Known, KnownIn
<1>6. AChild = Kids(p_sib)
  BY <1>5 DEF AChild, Kids, Children
<1>7. AChild' = Kids(p_sib')
  BY <1>5 DEF AChild, Kids, Children
<1> QED
  BY <1>3, <1>4, <1>6, <1>7 DEF AFree, AReady

-----------------------------------------------------------------------------
(* The invariant before and after a step *)

(* The invariant in parts, and what Queues sees of it.                     *)
LEMMA Here ==
  ASSUME IInv
  PROVE  /\ Listed(PNodes, PHeads(p_list), Pcb, p_list, PQ(p_list))
         /\ pcbFree_h \in PHeads(p_list) /\ g_ready_queue \in PHeads(p_list)
         /\ DOMAIN PQ(p_list) = PHeads(p_list)
         /\ Listed(SNodes, Childs(KnownIn(p_sib)), KnownIn(p_sib), p_sib, SQ(p_sib))
         /\ KnownIn(p_sib) \in SUBSET Pcb
         /\ Listed(FNodes, FHead, Semd, s_freelink, FQ(s_freelink)) /\ semdFree_h \in FHead
         /\ HOK(s_link) /\ Strands(Buckets, Semd, s_link, HQ(s_link), {})
         /\ SemsOK /\ TreeOK
         /\ AFree = PQ(p_list)[pcbFree_h] /\ AReady = PQ(p_list)[g_ready_queue]
         /\ AProcq = Served(PQ(p_list), HQ(s_link), s_key)
         /\ AChild = KidsOf(KnownIn(p_sib), SQ(p_sib))
<1>1. POK(p_list) /\ SOK(p_sib) /\ FOK(s_freelink) /\ HOK(s_link) /\ SemsOK /\ TreeOK
  BY DEF IInv
<1>2. pcbFree_h \in PHeads(p_list) /\ g_ready_queue \in PHeads(p_list) /\ DOMAIN PQ(p_list) = PHeads(p_list)
  BY DEF PHeads, PQ
<1>3. AFree = PQ(p_list)[pcbFree_h] /\ AReady = PQ(p_list)[g_ready_queue]
  BY <1>2 DEF AFree, AReady, PQ
<1>4. AProcq = Served(PQ(p_list), HQ(s_link), s_key)
  BY <1>1, Views, ProcqServed DEF SemsOK
<1>5. AChild = KidsOf(KnownIn(p_sib), SQ(p_sib))
  BY Views, KidsSeen
<1>6. KnownIn(p_sib) \in SUBSET Pcb
  BY DEF KnownIn
<1>7. semdFree_h \in FHead
  BY DEF FHead
<1> QED
  BY <1>1, <1>2, <1>3, <1>4, <1>5, <1>6, <1>7 DEF POK, SOK, FOK, HOK

(* A step that leaves lists, buckets and a tree reaches the invariant, and *)
(* Queues sees them.                                                       *)
LEMMA Reached ==
  ASSUME NEW H, NEW M, Listed(PNodes, H, Pcb, p_list', M), pcbFree_h \in H, g_ready_queue \in H,
         NEW K \in SUBSET Pcb, NEW C, Listed(SNodes, Childs(K), K, p_sib', C),
         NEW G, Listed(FNodes, FHead, Semd, s_freelink', G),
         NEW L, Strands(Buckets, Semd, s_link', L, {}),
         Sems(M, G[semdFree_h], L, s_key', p_semAdd'), Tree(M[pcbFree_h], C, K, p_parent')
  PROVE  /\ IInv'
         /\ AFree' = M[pcbFree_h] /\ AReady' = M[g_ready_queue]
         /\ AProcq' = Served(M, L, s_key')
         /\ AChild' = KidsOf(K, C)
<1>1. PHeads(p_list') = H /\ PQ(p_list') = M /\ POK(p_list')
  BY PFrom
<1>2. KnownIn(p_sib') = K /\ SQ(p_sib') = C /\ SOK(p_sib')
  BY SFrom
<1>3. FQ(s_freelink') = G /\ FOK(s_freelink')
  BY FFrom
<1>4. HQ(s_link') = L /\ HOK(s_link')
  BY HFrom
<1>5. SemsOK' /\ TreeOK'
  BY <1>1, <1>2, <1>3, <1>4 DEF SemsOK, TreeOK
<1>6. IInv'
  BY <1>1, <1>2, <1>3, <1>4, <1>5 DEF IInv
<1>7. pcbFree_h \in PHeads(p_list') /\ g_ready_queue \in PHeads(p_list')
  BY <1>1
<1>8. AFree' = M[pcbFree_h] /\ AReady' = M[g_ready_queue]
  <2>1. AFree' = PQ(p_list')[pcbFree_h] /\ AReady' = PQ(p_list')[g_ready_queue]
    BY <1>7, Views DEF PQ
  <2> QED
    BY <2>1, <1>1
<1>9. AProcq' = Served(M, L, s_key')
  <2>1. Procq(p_list', s_link', s_key') = Served(PQ(p_list'), HQ(s_link'), s_key')
    BY <1>1, <1>4, ProcqServed
  <2> QED
    BY <2>1, <1>1, <1>4, Views
<1>10. AChild' = KidsOf(K, C)
  <2>1. Kids(p_sib') = KidsOf(KnownIn(p_sib'), SQ(p_sib'))
    BY KidsSeen
  <2> QED
    BY <2>1, <1>2, Views
<1> QED
  BY <1>6, <1>8, <1>9, <1>10

(* Only the free list and the ready queue change.                          *)
LEMMA QueuesMove ==
  ASSUME IInv, NEW M, Listed(PNodes, PHeads(p_list), Pcb, p_list', M),
         \A d \in PHeads(p_list) \cap Semd : M[d] = PQ(p_list)[d],
         UNCHANGED <<p_sib, p_parent, semLists, p_semAdd>>,
         Tree(M[pcbFree_h], SQ(p_sib), KnownIn(p_sib), p_parent)
  PROVE  /\ IInv' /\ AFree' = M[pcbFree_h] /\ AReady' = M[g_ready_queue]
         /\ AProcq' = AProcq /\ AChild' = AChild
<1> DEFINE H == PHeads(p_list)
           Q == PQ(p_list)
           K == KnownIn(p_sib)
           C == SQ(p_sib)
           F == FQ(s_freelink)
           L == HQ(s_link)
<1>1. /\ p_sib' = p_sib /\ p_parent' = p_parent /\ s_freelink' = s_freelink
      /\ s_link' = s_link /\ s_key' = s_key /\ p_semAdd' = p_semAdd
  BY DEF semLists
<1>2. /\ pcbFree_h \in H /\ g_ready_queue \in H /\ DOMAIN Q = H
      /\ Listed(SNodes, Childs(K), K, p_sib, C) /\ K \in SUBSET Pcb
      /\ Listed(FNodes, FHead, Semd, s_freelink, F)
      /\ Strands(Buckets, Semd, s_link, L, {})
      /\ Sems(Q, F[semdFree_h], L, s_key, p_semAdd)
      /\ AProcq = Served(Q, L, s_key) /\ AChild = KidsOf(K, C)
  BY Here DEF SemsOK
<1>3. DOMAIN M = H
  BY DEF Listed
<1> HIDE DEF H, Q, K, C, F, L
<1>4. Sems(M, F[semdFree_h], L, s_key, p_semAdd) /\ Served(M, L, s_key) = Served(Q, L, s_key)
  <2>1. \A d \in DOMAIN Q \cap Semd : M[d] = Q[d]
    BY <1>2 DEF H, Q
  <2>2. DOMAIN M = DOMAIN Q
    BY <1>2, <1>3
  <2> QED
    BY <2>1, <2>2, <1>2, KeepSems
<1>5. /\ Listed(PNodes, H, Pcb, p_list', M)
      /\ Listed(SNodes, Childs(K), K, p_sib', C)
      /\ Listed(FNodes, FHead, Semd, s_freelink', F)
      /\ Strands(Buckets, Semd, s_link', L, {})
      /\ Sems(M, F[semdFree_h], L, s_key', p_semAdd') /\ Tree(M[pcbFree_h], C, K, p_parent')
  BY <1>1, <1>2, <1>4 DEF H, K, C
<1>6. /\ IInv' /\ AFree' = M[pcbFree_h] /\ AReady' = M[g_ready_queue]
      /\ AProcq' = Served(M, L, s_key') /\ AChild' = KidsOf(K, C)
  BY <1>2, <1>5, Reached
<1> QED
  BY <1>1, <1>2, <1>4, <1>6

(* Only the tree changes.                                                  *)
LEMMA TreeMoves ==
  ASSUME IInv, NEW C, Listed(SNodes, Childs(KnownIn(p_sib)), KnownIn(p_sib), p_sib', C),
         UNCHANGED <<p_list, semLists, p_semAdd>>,
         Tree(PQ(p_list)[pcbFree_h], C, KnownIn(p_sib), p_parent')
  PROVE  /\ IInv' /\ AFree' = AFree /\ AReady' = AReady /\ AProcq' = AProcq
         /\ AChild' = KidsOf(KnownIn(p_sib), C)
<1> DEFINE H == PHeads(p_list)
           Q == PQ(p_list)
           K == KnownIn(p_sib)
           F == FQ(s_freelink)
           L == HQ(s_link)
<1>1. /\ p_list' = p_list /\ s_freelink' = s_freelink
      /\ s_link' = s_link /\ s_key' = s_key /\ p_semAdd' = p_semAdd
  BY DEF semLists
<1>2. /\ pcbFree_h \in H /\ g_ready_queue \in H /\ DOMAIN Q = H
      /\ Listed(PNodes, H, Pcb, p_list, Q) /\ K \in SUBSET Pcb
      /\ Listed(FNodes, FHead, Semd, s_freelink, F)
      /\ Strands(Buckets, Semd, s_link, L, {})
      /\ Sems(Q, F[semdFree_h], L, s_key, p_semAdd)
      /\ AProcq = Served(Q, L, s_key) /\ AFree = Q[pcbFree_h] /\ AReady = Q[g_ready_queue]
  BY Here DEF SemsOK
<1> HIDE DEF H, Q, K, F, L
<1>5. /\ Listed(PNodes, H, Pcb, p_list', Q)
      /\ Listed(SNodes, Childs(K), K, p_sib', C)
      /\ Listed(FNodes, FHead, Semd, s_freelink', F)
      /\ Strands(Buckets, Semd, s_link', L, {})
      /\ Sems(Q, F[semdFree_h], L, s_key', p_semAdd') /\ Tree(Q[pcbFree_h], C, K, p_parent')
  BY <1>1, <1>2 DEF K, Q
<1>6. /\ IInv' /\ AFree' = Q[pcbFree_h] /\ AReady' = Q[g_ready_queue]
      /\ AProcq' = Served(Q, L, s_key') /\ AChild' = KidsOf(K, C)
  BY <1>2, <1>5, Reached
<1> QED
  BY <1>1, <1>2, <1>6 DEF K

-----------------------------------------------------------------------------
(* The abstract actions on the view *)

(* Queues has the same operators on sequences and sets.                    *)
LEMMA QueuesOperators ==
  /\ \A q : abstract!ToSet(q) = ToSet(q)
  /\ \A q, e : abstract!RemoveFirst(q, e) = RemoveFirst(q, e)
  /\ \A q : abstract!IsInjective(q) <=> IsInjective(q)
  /\ \A S : abstract!Cardinality(S) = Cardinality(S)
<1>1. \A q, n : abstract!RemoveAt(q, n) = RemoveAt(q, n)
  BY DEF abstract!RemoveAt, RemoveAt
<1>2. \A q, e : abstract!RemoveFirst(q, e) = RemoveFirst(q, e)
  BY <1>1 DEF abstract!RemoveFirst, RemoveFirst, abstract!SelectInSeq, SelectInSeq, abstract!Min, Min
<1>3. \A S : abstract!Cardinality(S) = Cardinality(S)
  BY DEF abstract!Cardinality, Cardinality
<1> QED
  BY <1>2, <1>3 DEF abstract!ToSet, ToSet, abstract!IsInjective, IsInjective

(* The caller frees a PCB that is on no semaphore and has no relatives.    *)
LEMMA GuardFree ==
  ASSUME NEW p \in Pcb
  PROVE  abstract!MayFree(p) <=> /\ p_semAdd[p] = NULL /\ AChild[p] = <<>>
                                 /\ \A q \in Pcb : p \notin ToSet(AChild[q])
  BY QueuesOperators DEF abstract!MayFree, abstract!Blocked, abstract!ChildOfSomeone, AChild

(* The caller makes ready a process that is neither blocked nor free.      *)
LEMMA GuardReady ==
  ASSUME NEW p \in Pcb
  PROVE  abstract!MayReady(p) <=> p_semAdd[p] = NULL /\ p \notin ToSet(AFree)
  BY QueuesOperators DEF abstract!MayReady, abstract!Blocked, abstract!Free, AFree

(* freePcb of Queues, in terms of what it sees here.                       *)
LEMMA AbstractFreePcb ==
  ASSUME NEW p, Returns("freePcb", <<p>>, NULL), abstract!MayFree(p),
         AFree' = <<p>> \o RemoveFirst(AFree, p), AReady' = RemoveFirst(AReady, p),
         AProcq' = AProcq, AChild' = AChild, p_semAdd' = p_semAdd, p_parent' = p_parent
  PROVE  abstract!freePcb(p)
  BY QueuesOperators DEF abstract!freePcb, abstract!Returns, Returns, AFree, AReady, AProcq, AChild

(* insertProcQ of Queues.                                                  *)
LEMMA AbstractInsertProcQ ==
  ASSUME NEW p, Returns("insertProcQ", <<p>>, NULL), abstract!MayReady(p),
         AFree' = AFree, AReady' = Append(RemoveFirst(AReady, p), p),
         AProcq' = AProcq, AChild' = AChild, p_semAdd' = p_semAdd, p_parent' = p_parent
  PROVE  abstract!insertProcQ(p)
  BY QueuesOperators DEF abstract!insertProcQ, abstract!Returns, Returns, AFree, AReady, AProcq, AChild

FirstOf(q) == IF q = <<>> THEN NULL ELSE Head(q)

(* removeProcQ of Queues.                                                  *)
LEMMA AbstractRemoveProcQ ==
  ASSUME Returns("removeProcQ", <<>>, FirstOf(AReady)),
         AFree' = AFree, AReady' = IF AReady = <<>> THEN AReady ELSE Tail(AReady),
         AProcq' = AProcq, AChild' = AChild, p_semAdd' = p_semAdd, p_parent' = p_parent
  PROVE  abstract!removeProcQ
  BY DEF abstract!removeProcQ, abstract!Returns, Returns, abstract!First, FirstOf,
         AFree, AReady, AProcq, AChild

(* headProcQ of Queues.                                                    *)
LEMMA AbstractHeadProcQ ==
  ASSUME Returns("headProcQ", <<>>, FirstOf(AReady)),
         AFree' = AFree, AReady' = AReady,
         AProcq' = AProcq, AChild' = AChild, p_semAdd' = p_semAdd, p_parent' = p_parent
  PROVE  abstract!headProcQ
  BY DEF abstract!headProcQ, abstract!Returns, Returns, abstract!First, FirstOf,
         AFree, AReady, AProcq, AChild

(* outProcQ of Queues.                                                     *)
LEMMA AbstractOutProcQ ==
  ASSUME NEW p, Returns("outProcQ", <<p>>, IF p \in ToSet(AReady) THEN p ELSE NULL),
         AFree' = AFree, AReady' = RemoveFirst(AReady, p),
         AProcq' = AProcq, AChild' = AChild, p_semAdd' = p_semAdd, p_parent' = p_parent
  PROVE  abstract!outProcQ(p)
  BY QueuesOperators DEF abstract!outProcQ, abstract!Returns, Returns, AFree, AReady, AProcq, AChild

-----------------------------------------------------------------------------
(* The free list and the ready queue *)

(* The tree stays when the free list gets nobody but PCBs without          *)
(* relatives.                                                              *)
LEMMA KeepTree ==
  ASSUME NEW fr, NEW C, NEW K, NEW par, Tree(fr, C, K, par), NEW gr,
         \A x \in ToSet(gr) : \/ x \in ToSet(fr)
                              \/ /\ x \in K => C[p_child(x)] = <<>>
                                 /\ \A q \in K : x \notin ToSet(C[p_child(q)])
  PROVE  Tree(gr, C, K, par)
  BY DEF Tree

(* Who is blocked on nothing is in no queue of a semaphore, and leaves     *)
(* none.                                                                   *)
LEMMA UnblockedTaken ==
  ASSUME IInv, NEW p \in Pcb, p_semAdd[p] = NULL
  PROVE  \A d \in PHeads(p_list) \cap Semd :
           /\ p \notin ToSet(PQ(p_list)[d])
           /\ TakenOut(PHeads(p_list), PQ(p_list), p)[d] = PQ(p_list)[d]
<1> DEFINE H == PHeads(p_list)
           Q == PQ(p_list)
<1>1. /\ Listed(PNodes, H, Pcb, p_list, Q) /\ DOMAIN Q = H
      /\ Sems(Q, FQ(s_freelink)[semdFree_h], HQ(s_link), s_key, p_semAdd)
  BY Here DEF SemsOK
<1> HIDE DEF H, Q
<1>2. \A d \in DOMAIN Q \cap Semd : p \notin ToSet(Q[d])
  BY <1>1, NotBlocked
<1>3. \A g \in H : p \notin ToSet(Q[g]) => TakenOut(H, Q, p)[g] = Q[g]
  BY <1>1, ListedTaken
<1> QED
  BY <1>1, <1>2, <1>3 DEF H, Q

(* freePcb: the PCB leaves the queue it is in and is the first free one.   *)
LEMMA StepFreePcb ==
  ASSUME IInv, NEW p \in Pcb, abstract!MayFree(p), freePcb(p)
  PROVE  IInv' /\ abstract!freePcb(p)
<1> DEFINE H == PHeads(p_list)
           Q == PQ(p_list)
           T == TakenOut(H, Q, p)
           h == pcbFree_h
           M == [T EXCEPT ![h] = <<p>> \o RemoveFirst(Q[h], p)]
           K == KnownIn(p_sib)
           C == SQ(p_sib)
<1>1. /\ Listed(PNodes, H, Pcb, p_list, Q) /\ h \in H /\ g_ready_queue \in H /\ h # g_ready_queue
      /\ Tree(Q[h], C, K, p_parent) /\ AFree = Q[h] /\ AReady = Q[g_ready_queue]
      /\ AChild = KidsOf(K, C) /\ K \in SUBSET Pcb /\ h \notin Semd
  BY Here, Apartness DEF TreeOK
<1>2. p_semAdd[p] = NULL /\ AChild[p] = <<>> /\ \A q \in Pcb : p \notin ToSet(AChild[q])
  BY GuardFree
<1>3. \A d \in H \cap Semd : T[d] = Q[d]
  BY <1>2, UnblockedTaken
<1>4. /\ Returns("freePcb", <<p>>, NULL) /\ UNCHANGED <<p_sib, p_parent, semLists, p_semAdd>>
      /\ p_list' = list_add(IF list_empty(p_list, p) THEN p_list ELSE list_delete_safe(p_list, p), p, h)
  BY DEF freePcb
<1> HIDE DEF H, Q, K, C, h, T
<1>5. /\ Listed(PNodes, H, Pcb, list_add(list_delete_safe(p_list, p), p, h), M)
      /\ p_list.next[p] = p => list_delete_safe(p_list, p) = p_list
  <2>1. Listed(PNodes, H, Pcb, list_add(list_delete_safe(p_list, p), p, h), M)
    BY <1>1, ListedFront DEF T
  <2>2. p_list.next[p] = p => list_delete_safe(p_list, p) = p_list
    BY <1>1, SelfDeleted
  <2> QED
    BY <2>1, <2>2
<1>6. Listed(PNodes, H, Pcb, p_list', M)
  BY <1>4, <1>5 DEF list_empty
<1>7. DOMAIN T = H /\ \A g \in H : T[g] = RemoveFirst(Q[g], p) /\ ToSet(T[g]) = ToSet(Q[g]) \ {p}
  <2>1. \A g \in H : T[g] = RemoveFirst(Q[g], p) /\ ToSet(T[g]) = ToSet(Q[g]) \ {p}
    BY <1>1, ListedTaken DEF T
  <2> QED
    BY <2>1 DEF T, TakenOut
<1>8. /\ M[h] = <<p>> \o RemoveFirst(Q[h], p) /\ M[g_ready_queue] = RemoveFirst(Q[g_ready_queue], p)
      /\ \A d \in H \cap Semd : M[d] = Q[d]
  BY <1>1, <1>3, <1>7
<1>9. ToSet(M[h]) \subseteq ToSet(Q[h]) \cup {p}
  <2> DEFINE q == RemoveFirst(Q[h], p)
  <2>1. Q[h] \in Seq(Pcb) /\ IsInjective(Q[h])
    BY <1>1, ListedFacts
  <2>2. q \in Seq(Pcb) /\ ToSet(q) = ToSet(Q[h]) \ {p}
    BY <2>1, RemoveFirstQueue
  <2> HIDE DEF q
  <2>3. ToSet(<<p>> \o q) = {p} \cup ToSet(q)
    BY <2>2, PushStack
  <2>4. M[h] = <<p>> \o q
    BY <1>8 DEF q
  <2> QED
    BY <2>2, <2>3, <2>4
<1>10. /\ p \in K => C[p_child(p)] = <<>>
       /\ \A q \in K : p \notin ToSet(C[p_child(q)])
  BY <1>1, <1>2 DEF KidsOf
<1> HIDE DEF M
<1>11. Tree(M[h], C, K, p_parent)
  BY <1>1, <1>9, <1>10, KeepTree
<1>12. /\ IInv' /\ AFree' = M[h] /\ AReady' = M[g_ready_queue]
       /\ AProcq' = AProcq /\ AChild' = AChild
  BY <1>4, <1>6, <1>8, <1>11, QueuesMove DEF H, Q, K, C, h
<1>13. abstract!freePcb(p)
  BY <1>1, <1>4, <1>8, <1>12, AbstractFreePcb
<1> QED
  BY <1>12, <1>13

(* insertProcQ: the process is the last of the ready queue.                *)
LEMMA StepInsertProcQ ==
  ASSUME IInv, NEW p \in Pcb, abstract!MayReady(p), insertProcQ(g_ready_queue, p)
  PROVE  IInv' /\ abstract!insertProcQ(p)
<1> DEFINE H == PHeads(p_list)
           Q == PQ(p_list)
           T == TakenOut(H, Q, p)
           h == g_ready_queue
           M == [T EXCEPT ![h] = Append(RemoveFirst(Q[h], p), p)]
           K == KnownIn(p_sib)
           C == SQ(p_sib)
<1>1. /\ Listed(PNodes, H, Pcb, p_list, Q) /\ h \in H /\ pcbFree_h \in H /\ h # pcbFree_h
      /\ Tree(Q[pcbFree_h], C, K, p_parent) /\ AFree = Q[pcbFree_h] /\ AReady = Q[h]
      /\ h \notin Semd
  BY Here, Apartness DEF TreeOK
<1>2. p_semAdd[p] = NULL /\ p \notin ToSet(AFree)
  BY GuardReady
<1>3. \A d \in H \cap Semd : T[d] = Q[d]
  BY <1>2, UnblockedTaken
<1>4. /\ Returns("insertProcQ", <<p>>, NULL) /\ UNCHANGED <<p_sib, p_parent, semLists, p_semAdd>>
      /\ p_list' = list_add_tail(list_del(p_list, p), p, h)
  BY DEF insertProcQ, insertedProcQ
<1> HIDE DEF H, Q, K, C, h, T
<1>5. /\ Listed(PNodes, H, Pcb, list_add_tail(list_delete_safe(p_list, p), p, h), M)
      /\ list_add_tail(list_del(p_list, p), p, h) = list_add_tail(list_delete_safe(p_list, p), p, h)
  BY <1>1, ListedMove DEF T
<1>6. Listed(PNodes, H, Pcb, p_list', M)
  BY <1>4, <1>5
<1>7. /\ DOMAIN T = H
      /\ \A g \in H : p \notin ToSet(Q[g]) => T[g] = Q[g]
  <2>1. \A g \in H : p \notin ToSet(Q[g]) => T[g] = Q[g]
    BY <1>1, ListedTaken DEF T
  <2> QED
    BY <2>1 DEF T, TakenOut
<1>8. /\ M[h] = Append(RemoveFirst(Q[h], p), p) /\ M[pcbFree_h] = Q[pcbFree_h]
      /\ \A d \in H \cap Semd : M[d] = Q[d]
  BY <1>1, <1>2, <1>3, <1>7
<1> HIDE DEF M
<1>11. Tree(M[pcbFree_h], C, K, p_parent)
  BY <1>1, <1>8
<1>12. /\ IInv' /\ AFree' = M[pcbFree_h] /\ AReady' = M[h]
       /\ AProcq' = AProcq /\ AChild' = AChild
  BY <1>4, <1>6, <1>8, <1>11, QueuesMove DEF H, Q, K, C, h
<1>13. abstract!insertProcQ(p)
  BY <1>1, <1>4, <1>8, <1>12, AbstractInsertProcQ
<1> QED
  BY <1>12, <1>13

(* The queue of the ready processes, seen from the pointers.               *)
LEMMA ReadySeen ==
  ASSUME IInv
  PROVE  /\ AReady \in Seq(Pcb)
         /\ emptyProcQ(p_list, g_ready_queue) <=> AReady = <<>>
         /\ firstProcQ(g_ready_queue) = FirstOf(AReady)
<1> DEFINE H == PHeads(p_list)
           Q == PQ(p_list)
           h == g_ready_queue
<1>1. Listed(PNodes, H, Pcb, p_list, Q) /\ h \in H /\ AReady = Q[h]
  BY Here
<1> HIDE DEF H, Q, h
<1>2. /\ Q[h] \in Seq(Pcb)
      /\ list_empty(p_list, h) <=> Q[h] = <<>>
      /\ Q[h] # <<>> => p_list.next[h] = Head(Q[h])
  BY <1>1, ListedFacts
<1> QED
  BY <1>1, <1>2 DEF emptyProcQ, firstProcQ, FirstOf, h

-----------------------------------------------------------------------------
(* The rest of the ready queue *)

(* headProcQ changes nothing.                                              *)
LEMMA StepHeadProcQ ==
  ASSUME IInv, headProcQ(g_ready_queue)
  PROVE  IInv' /\ abstract!headProcQ
<1>1. /\ Returns("headProcQ", <<>>, FirstOf(AReady))
      /\ UNCHANGED <<p_list, p_sib, p_parent, semLists, p_semAdd>>
  BY ReadySeen DEF headProcQ, procLists
<1> DEFINE M == PQ(p_list)
<1>2. /\ Listed(PNodes, PHeads(p_list), Pcb, p_list, M) /\ TreeOK
      /\ AFree = M[pcbFree_h] /\ AReady = M[g_ready_queue]
  BY Here
<1> HIDE DEF M
<1>3. /\ Listed(PNodes, PHeads(p_list), Pcb, p_list', M)
      /\ Tree(M[pcbFree_h], SQ(p_sib), KnownIn(p_sib), p_parent)
      /\ \A d \in PHeads(p_list) \cap Semd : M[d] = PQ(p_list)[d]
  BY <1>1, <1>2 DEF TreeOK, M
<1>4. /\ IInv' /\ AFree' = M[pcbFree_h] /\ AReady' = M[g_ready_queue]
      /\ AProcq' = AProcq /\ AChild' = AChild
  BY <1>1, <1>3, QueuesMove
<1>5. abstract!headProcQ
  BY <1>1, <1>2, <1>4, AbstractHeadProcQ
<1> QED
  BY <1>4, <1>5

(* The head of a list of processes is taken off it.                        *)
LEMMA ReadyShrinks ==
  ASSUME IInv, NEW M, M = PQ(p_list) \/ \E t : M = [PQ(p_list) EXCEPT ![g_ready_queue] = t]
  PROVE  /\ \A d \in PHeads(p_list) \cap Semd : M[d] = PQ(p_list)[d]
         /\ M[pcbFree_h] = PQ(p_list)[pcbFree_h]
         /\ Tree(M[pcbFree_h], SQ(p_sib), KnownIn(p_sib), p_parent)
<1> DEFINE Q == PQ(p_list)
           H == PHeads(p_list)
<1>1. /\ DOMAIN Q = H /\ g_ready_queue \notin Semd /\ pcbFree_h \in H /\ pcbFree_h # g_ready_queue
      /\ Tree(Q[pcbFree_h], SQ(p_sib), KnownIn(p_sib), p_parent)
  BY Here, Apartness DEF TreeOK
<1> HIDE DEF Q, H, g_ready_queue, pcbFree_h
<1>2. M[pcbFree_h] = Q[pcbFree_h] /\ \A d \in H \cap Semd : M[d] = Q[d]
  BY <1>1 DEF Q
<1> QED
  BY <1>1, <1>2 DEF Q, H

(* removeProcQ: the first process leaves the ready queue.                  *)
LEMMA StepRemoveProcQ ==
  ASSUME IInv, removeProcQ(g_ready_queue)
  PROVE  IInv' /\ abstract!removeProcQ
<1> DEFINE H == PHeads(p_list)
           Q == PQ(p_list)
           h == g_ready_queue
           M == IF Q[h] = <<>> THEN Q ELSE SetAt(Q, h, Tail(Q[h]))
<1>1. /\ Listed(PNodes, H, Pcb, p_list, Q) /\ h \in H /\ DOMAIN Q = H
      /\ AFree = Q[pcbFree_h] /\ AReady = Q[h]
  BY Here
<1>2. /\ \A d \in H \cap Semd : M[d] = Q[d]
      /\ M[pcbFree_h] = Q[pcbFree_h]
      /\ Tree(M[pcbFree_h], SQ(p_sib), KnownIn(p_sib), p_parent)
  <2>1. M = Q \/ \E t : M = [Q EXCEPT ![h] = t]
    BY DEF SetAt
  <2> HIDE DEF M
  <2> QED
    BY <2>1, ReadyShrinks
<1>3. /\ Returns("removeProcQ", <<>>, FirstOf(AReady))
      /\ UNCHANGED <<p_sib, p_parent, semLists, p_semAdd>>
      /\ p_list' = IF AReady = <<>> THEN p_list ELSE list_delete_safe(p_list, p_list.next[h])
  BY ReadySeen DEF removeProcQ
<1> HIDE DEF H, Q, h
<1>4. Listed(PNodes, H, Pcb, p_list', M)
  <2>1. CASE Q[h] = <<>>
    BY <2>1, <1>1, <1>3
  <2>2. CASE Q[h] # <<>>
    <3>1. p_list.next[h] = Head(Q[h])
      BY <1>1, <2>2, ListedPop
    <3>2. Listed(PNodes, H, Pcb, list_delete_safe(p_list, Head(Q[h])), SetAt(Q, h, Tail(Q[h])))
      BY <1>1, <2>2, ListedPopped
    <3> QED
      BY <3>1, <3>2, <2>2, <1>1, <1>3
  <2> QED
    BY <2>1, <2>2
<1>5. M[h] = IF AReady = <<>> THEN AReady ELSE Tail(AReady)
  BY <1>1 DEF SetAt
<1> HIDE DEF M
<1>6. /\ IInv' /\ AFree' = M[pcbFree_h] /\ AReady' = M[h]
      /\ AProcq' = AProcq /\ AChild' = AChild
  BY <1>2, <1>3, <1>4, QueuesMove DEF H, Q, h
<1>7. abstract!removeProcQ
  BY <1>1, <1>2, <1>3, <1>5, <1>6, AbstractRemoveProcQ
<1> QED
  BY <1>6, <1>7

(* outProcQ: the process leaves the ready queue, wherever it is in it.     *)
LEMMA StepOutProcQ ==
  ASSUME IInv, NEW p \in Pcb, outProcQ(g_ready_queue, p)
  PROVE  IInv' /\ abstract!outProcQ(p)
<1> DEFINE H == PHeads(p_list)
           Q == PQ(p_list)
           h == g_ready_queue
           M == IF p \in ToSet(Q[h]) THEN [Q EXCEPT ![h] = RemoveFirst(Q[h], p)] ELSE Q
<1>1. /\ Listed(PNodes, H, Pcb, p_list, Q) /\ h \in H /\ DOMAIN Q = H
      /\ AFree = Q[pcbFree_h] /\ AReady = Q[h]
  BY Here
<1>2. /\ \A d \in H \cap Semd : M[d] = Q[d]
      /\ M[pcbFree_h] = Q[pcbFree_h]
      /\ Tree(M[pcbFree_h], SQ(p_sib), KnownIn(p_sib), p_parent)
  <2>1. M = Q \/ \E t : M = [Q EXCEPT ![h] = t]
    OBVIOUS
  <2> HIDE DEF M
  <2> QED
    BY <2>1, ReadyShrinks
<1>3. /\ Returns("outProcQ", <<p>>, IF p \in ToSet(AReady) THEN p ELSE NULL)
      /\ UNCHANGED <<p_sib, p_parent, semLists, p_semAdd>>
      /\ p_list' = IF p \in ToSet(AReady) THEN list_delete_safe(p_list, p) ELSE p_list
  BY DEF outProcQ, AReady
<1> HIDE DEF H, Q, h
<1>4. /\ Listed(PNodes, H, Pcb, p_list', M)
      /\ M[h] = RemoveFirst(AReady, p)
  <2>1. CASE p \in ToSet(Q[h])
    <3>1. TakenOut(H, Q, p) = [Q EXCEPT ![h] = RemoveFirst(Q[h], p)]
      BY <1>1, <2>1, TakenFrom
    <3>2. Listed(PNodes, H, Pcb, list_delete_safe(p_list, p), TakenOut(H, Q, p))
      BY <1>1, ListedTaken
    <3> QED
      BY <3>1, <3>2, <2>1, <1>1, <1>3
  <2>2. CASE p \notin ToSet(Q[h])
    <3>1. \A g \in H : TakenOut(H, Q, p)[g] = RemoveFirst(Q[g], p)
      BY <1>1, ListedTaken
    <3>2. \A g \in H : p \notin ToSet(Q[g]) => TakenOut(H, Q, p)[g] = Q[g]
      BY <1>1, ListedTaken
    <3> QED
      BY <3>1, <3>2, <2>2, <1>1, <1>3
  <2> QED
    BY <2>1, <2>2
<1> HIDE DEF M
<1>6. /\ IInv' /\ AFree' = M[pcbFree_h] /\ AReady' = M[h]
      /\ AProcq' = AProcq /\ AChild' = AChild
  BY <1>2, <1>3, <1>4, QueuesMove DEF H, Q, h
<1>7. abstract!outProcQ(p)
  BY <1>1, <1>2, <1>3, <1>4, <1>6, AbstractOutProcQ
<1> QED
  BY <1>6, <1>7

-----------------------------------------------------------------------------
(* The tree *)

OrphanedOf(k, p) == [q \in Pcb |-> RemoveFirst(k[q], p)]

(* A process becomes the child of another that is not free, before it has  *)
(* children.                                                               *)
LEMMA GuardAdopt ==
  ASSUME NEW p \in Pcb, NEW q
  PROVE  abstract!MayAdopt(q, p) <=>
           q # p /\ {q, p} \cap ToSet(AFree) = {} /\ AChild[p] = <<>>
  BY QueuesOperators DEF abstract!MayAdopt, abstract!Free, AFree, AChild

(* insertChild of Queues.                                                  *)
LEMMA AbstractInsertChild ==
  ASSUME NEW p, NEW q \in Pcb, Returns("insertChild", <<q, p>>, NULL), abstract!MayAdopt(q, p),
         p_parent' = [p_parent EXCEPT ![p] = q],
         AChild' = [OrphanedOf(AChild, p) EXCEPT ![q] = Append(RemoveFirst(AChild[q], p), p)],
         AFree' = AFree, AReady' = AReady, AProcq' = AProcq, p_semAdd' = p_semAdd
  PROVE  abstract!insertChild(q, p)
<1>1. abstract!Orphaned(p) = OrphanedOf(AChild, p)
  BY QueuesOperators DEF abstract!Orphaned, OrphanedOf, AChild
<1>2. OrphanedOf(AChild, p)[q] = RemoveFirst(AChild[q], p)
  BY DEF OrphanedOf
<1> QED
  BY <1>1, <1>2 DEF abstract!insertChild, abstract!Returns, Returns, AFree, AReady, AProcq, AChild

(* removeChild of Queues.                                                  *)
LEMMA AbstractRemoveChild ==
  ASSUME NEW q, Returns("removeChild", <<q>>, FirstOf(AChild[q])),
         AChild' = IF AChild[q] = <<>> THEN AChild ELSE [AChild EXCEPT ![q] = Tail(AChild[q])],
         AFree' = AFree, AReady' = AReady, AProcq' = AProcq,
         p_semAdd' = p_semAdd, p_parent' = p_parent
  PROVE  abstract!removeChild(q)
  BY DEF abstract!removeChild, abstract!Returns, Returns, abstract!First, FirstOf,
         AFree, AReady, AProcq, AChild

(* outChild of Queues.                                                     *)
LEMMA AbstractOutChild ==
  ASSUME NEW p,
         Returns("outChild", <<p>>, IF \E q \in Pcb : p \in ToSet(AChild[q]) THEN p ELSE NULL),
         AChild' = OrphanedOf(AChild, p),
         AFree' = AFree, AReady' = AReady, AProcq' = AProcq,
         p_semAdd' = p_semAdd, p_parent' = p_parent
  PROVE  abstract!outChild(p)
<1>1. abstract!Orphaned(p) = OrphanedOf(AChild, p)
  BY QueuesOperators DEF abstract!Orphaned, OrphanedOf, AChild
<1>2. abstract!ChildOfSomeone(p) <=> \E q \in Pcb : p \in ToSet(AChild[q])
  BY QueuesOperators DEF abstract!ChildOfSomeone, AChild
<1> QED
  BY <1>1, <1>2 DEF abstract!outChild, abstract!Returns, Returns, AFree, AReady, AProcq, AChild

(* Nothing leaves an empty sequence.                                       *)
LEMMA RemoveNothing == \A x : RemoveFirst(<<>>, x) = <<>>
<1> TAKE x
<1> DEFINE q == <<>>
<1>1. q \in Seq({}) /\ IsInjective(q) /\ ToSet(q) = {}
  BY EmptyQueue
<1> HIDE DEF q
<1>2. RemoveFirst(q, x) \in Seq({})
  BY <1>1, RemoveFirstQueue
<1>3. RemoveFirst(q, x) = <<>>
  BY <1>2
<1> QED
  BY <1>3 DEF q

(* An entry that leaves the lists of children leaves its parent.           *)
LEMMA KidsTaken ==
  ASSUME NEW K \in SUBSET Pcb, NEW C, NEW p
  PROVE  KidsOf(K, TakenOut(Childs(K), C, p)) = OrphanedOf(KidsOf(K, C), p)
<1>1. \A q \in K : p_child(q) \in Childs(K)
  BY DEF Childs
<1>2. \A q \in K : TakenOut(Childs(K), C, p)[p_child(q)] = RemoveFirst(C[p_child(q)], p)
  BY <1>1 DEF TakenOut
<1>3. \A q \in Pcb : KidsOf(K, TakenOut(Childs(K), C, p))[q] = OrphanedOf(KidsOf(K, C), p)[q]
  BY <1>2, RemoveNothing DEF KidsOf, OrphanedOf
<1> QED
  BY <1>3 DEF KidsOf, OrphanedOf

(* The list of one parent changes.                                         *)
LEMMA KidsExcept ==
  ASSUME NEW K \in SUBSET Pcb, NEW C, DOMAIN C = Childs(K), NEW q \in K, NEW t
  PROVE  KidsOf(K, SetAt(C, p_child(q), t)) = SetAt(KidsOf(K, C), q, t)
<1> DEFINE D == [C EXCEPT ![p_child(q)] = t]
<1>1. \A r \in K : p_child(r) \in Childs(K) /\ (p_child(r) = p_child(q) => r = q)
  BY Apartness DEF Childs
<1> HIDE DEF p_child
<1>2. \A r \in K : D[p_child(r)] = IF r = q THEN t ELSE C[p_child(r)]
  BY <1>1
<1> HIDE DEF D
<1>3. \A r \in Pcb : KidsOf(K, D)[r] = [KidsOf(K, C) EXCEPT ![q] = t][r]
  BY <1>2 DEF KidsOf
<1>4. KidsOf(K, D) = [KidsOf(K, C) EXCEPT ![q] = t]
  BY <1>3 DEF KidsOf
<1> QED
  BY <1>4 DEF D, SetAt

(* What a PCB is in the tree.                                              *)
LEMMA Relatives ==
  ASSUME IInv
  PROVE  /\ \A q \in Pcb : AChild[q] # <<>> => q \in KnownIn(p_sib)
         /\ \A q \in KnownIn(p_sib) :
              /\ q \in Pcb /\ p_child(q) \in Childs(KnownIn(p_sib))
              /\ AChild[q] = SQ(p_sib)[p_child(q)]
              /\ AChild[q] \in Seq(KnownIn(p_sib)) /\ IsInjective(AChild[q])
              /\ list_for_each(p_sib, p_child(q)) = AChild[q]
              /\ emptyChild(q) <=> AChild[q] = <<>>
              /\ AChild[q] # <<>> => p_sib.next[p_child(q)] = Head(AChild[q])
         /\ \A q, c \in Pcb : c \in ToSet(AChild[q]) => p_parent[c] = q /\ q \in KnownIn(p_sib)
<1> DEFINE K == KnownIn(p_sib)
           C == SQ(p_sib)
<1>1. /\ Listed(SNodes, Childs(K), K, p_sib, C) /\ K \in SUBSET Pcb
      /\ AChild = KidsOf(K, C) /\ \A q \in K : \A c \in ToSet(C[p_child(q)]) : p_parent[c] = q
  BY Here DEF TreeOK, Tree
<1> HIDE DEF K, C
<1>2. \A q \in Pcb : AChild[q] = IF q \in K THEN C[p_child(q)] ELSE <<>>
  BY <1>1 DEF KidsOf
<1>3. ASSUME NEW q \in K
      PROVE  /\ q \in Pcb /\ p_child(q) \in Childs(K)
             /\ AChild[q] = C[p_child(q)]
             /\ AChild[q] \in Seq(K) /\ IsInjective(AChild[q])
             /\ list_for_each(p_sib, p_child(q)) = AChild[q]
             /\ emptyChild(q) <=> AChild[q] = <<>>
             /\ AChild[q] # <<>> => p_sib.next[p_child(q)] = Head(AChild[q])
  <2> DEFINE h == p_child(q)
  <2>1. h \in Childs(K) /\ AChild[q] = C[h] /\ q \in Pcb
    BY <1>1, <1>2 DEF Childs
  <2> HIDE DEF h
  <2>2. /\ C[h] \in Seq(K) /\ IsInjective(C[h]) /\ list_for_each(p_sib, h) = C[h]
        /\ list_empty(p_sib, h) <=> C[h] = <<>>
        /\ C[h] # <<>> => p_sib.next[h] = Head(C[h])
    BY <1>1, <2>1, ListedFacts
  <2> QED
    BY <2>1, <2>2 DEF emptyChild, h
<1>4. \A q, c \in Pcb : c \in ToSet(AChild[q]) => p_parent[c] = q /\ q \in K
  <2> TAKE q, c \in Pcb
  <2> HAVE c \in ToSet(AChild[q])
  <2>1. q \in K
    BY <1>2, EmptyQueue
  <2> QED
    BY <2>1, <1>1, <1>2
<1>5. \A q \in Pcb : AChild[q] # <<>> => q \in K
  BY <1>2
<1> QED
  BY <1>3, <1>4, <1>5 DEF K, C

(* removeChild: the eldest child leaves.                                   *)
LEMMA StepRemoveChild ==
  ASSUME IInv, NEW q \in KnownIn(p_sib), removeChild(q)
  PROVE  IInv' /\ abstract!removeChild(q)
<1> DEFINE K == KnownIn(p_sib)
           C == SQ(p_sib)
           h == p_child(q)
           M == IF AChild[q] = <<>> THEN C ELSE SetAt(C, h, Tail(C[h]))
           fr == PQ(p_list)[pcbFree_h]
<1>1. /\ Listed(SNodes, Childs(K), K, p_sib, C) /\ K \in SUBSET Pcb
      /\ AChild = KidsOf(K, C) /\ Tree(fr, C, K, p_parent)
  BY Here DEF TreeOK
<1>2. /\ h \in Childs(K) /\ AChild[q] = C[h] /\ q \in Pcb
      /\ emptyChild(q) <=> AChild[q] = <<>>
      /\ AChild[q] # <<>> => p_sib.next[h] = Head(AChild[q])
  BY Relatives
<1>3. /\ Returns("removeChild", <<q>>, FirstOf(AChild[q]))
      /\ p_sib' = IF AChild[q] = <<>> THEN p_sib ELSE list_delete_safe(p_sib, Head(AChild[q]))
      /\ UNCHANGED <<p_list, p_parent, semLists, p_semAdd>>
  BY <1>2 DEF removeChild, FirstOf
<1>4. DOMAIN C = Childs(K) /\ q \in K
  BY DEF SQ
<1>5. KidsOf(K, M) = IF AChild[q] = <<>> THEN AChild ELSE [AChild EXCEPT ![q] = Tail(AChild[q])]
  <2>1. CASE AChild[q] = <<>>
    BY <2>1, <1>1
  <2>2. CASE AChild[q] # <<>>
    <3> HIDE DEF K, C
    <3>1. KidsOf(K, SetAt(C, p_child(q), Tail(C[h]))) = SetAt(KidsOf(K, C), q, Tail(C[h]))
      BY <1>1, <1>4, KidsExcept
    <3> QED
      BY <3>1, <2>2, <1>1, <1>2 DEF SetAt
  <2> QED
    BY <2>1, <2>2
<1> HIDE DEF K, C, h, fr
<1>6. /\ Listed(SNodes, Childs(K), K, p_sib', M)
      /\ \A g \in Childs(K) : ToSet(M[g]) \subseteq ToSet(C[g]) /\ (C[g] = <<>> => M[g] = <<>>)
  <2>1. CASE AChild[q] = <<>>
    BY <2>1, <1>1, <1>3
  <2>2. CASE AChild[q] # <<>>
    <3> DEFINE x == Head(C[h])
    <3>1. x \in K
      BY <1>1, <1>2, <2>2, ListedPop
    <3>2. /\ TakenOut(Childs(K), C, x) = SetAt(C, h, Tail(C[h]))
          /\ Listed(SNodes, Childs(K), K, list_delete_safe(p_sib, x), SetAt(C, h, Tail(C[h])))
      BY <1>1, <1>2, <2>2, ListedPopped
    <3> HIDE DEF x
    <3>4. \A g \in Childs(K) : ToSet(TakenOut(Childs(K), C, x)[g]) = ToSet(C[g]) \ {x}
      BY <1>1, <3>1, ListedTaken
    <3>5. \A g \in Childs(K) : C[g] = <<>> => TakenOut(Childs(K), C, x)[g] = <<>>
      BY RemoveNothing DEF TakenOut
    <3>6. M = TakenOut(Childs(K), C, x)
      BY <3>2, <2>2
    <3>7. p_sib' = list_delete_safe(p_sib, x)
      BY <2>2, <1>2, <1>3 DEF x
    <3> HIDE DEF M
    <3> QED
      BY <3>2, <3>4, <3>5, <3>6, <3>7
  <2> QED
    BY <2>1, <2>2
<1> HIDE DEF M
<1>7. Tree(fr, M, K, p_parent)
  <2>1. \A r \in K : p_child(r) \in Childs(K)
    BY DEF Childs
  <2> QED
    BY <2>1, <1>1, <1>6 DEF Tree
<1>8. p_parent' = p_parent
  BY <1>3
<1>9. /\ IInv' /\ AFree' = AFree /\ AReady' = AReady /\ AProcq' = AProcq
      /\ AChild' = KidsOf(K, M)
  BY <1>3, <1>6, <1>7, <1>8, TreeMoves DEF K, fr
<1>10. abstract!removeChild(q)
  BY <1>3, <1>5, <1>9, AbstractRemoveChild
<1> QED
  BY <1>9, <1>10

(* outChild: the list searched is the one the child is in, because of      *)
(* p_parent.                                                               *)
LEMMA StepOutChild ==
  ASSUME IInv, NEW p \in KnownIn(p_sib), outChild(p)
  PROVE  IInv' /\ abstract!outChild(p)
<1> DEFINE K == KnownIn(p_sib)
           C == SQ(p_sib)
           M == TakenOut(Childs(K), C, p)
           fr == PQ(p_list)[pcbFree_h]
           kid == \E q \in Pcb : p \in ToSet(AChild[q])
<1>1. /\ Listed(SNodes, Childs(K), K, p_sib, C) /\ K \in SUBSET Pcb /\ p \in K
      /\ AChild = KidsOf(K, C) /\ Tree(fr, C, K, p_parent)
  BY Here DEF TreeOK
<1>2. /\ \A q \in K : list_for_each(p_sib, p_child(q)) = AChild[q] /\ AChild[q] = C[p_child(q)]
      /\ \A q, c \in Pcb : c \in ToSet(AChild[q]) => p_parent[c] = q /\ q \in K
  BY Relatives
<1>3. p_parent[p] \in K \cup {NULL} /\ NULL \notin Pcb
  BY <1>1, Apartness DEF Tree
<1> HIDE DEF K, C, fr
<1>4. kid <=> p_parent[p] # NULL /\ p \in ToSet(list_for_each(p_sib, p_child(p_parent[p])))
  <2>1. kid => p_parent[p] \in K /\ p \in ToSet(AChild[p_parent[p]])
    BY <1>1, <1>2
  <2>2. p_parent[p] \in K /\ p \in ToSet(AChild[p_parent[p]]) => kid
    BY <1>1
  <2> HIDE DEF kid
  <2> QED
    BY <2>1, <2>2, <1>1, <1>2, <1>3
<1>5. /\ Returns("outChild", <<p>>, IF kid THEN p ELSE NULL)
      /\ p_sib' = IF kid THEN list_delete_safe(p_sib, p) ELSE p_sib
      /\ UNCHANGED <<p_list, p_parent, semLists, p_semAdd>>
  BY <1>4 DEF outChild
<1>6. Listed(SNodes, Childs(K), K, p_sib', M)
  <2>1. CASE kid
    <3>1. Listed(SNodes, Childs(K), K, list_delete_safe(p_sib, p), TakenOut(Childs(K), C, p))
      BY <1>1, ListedTaken
    <3> QED
      BY <3>1, <2>1, <1>5
  <2>2. CASE ~ kid
    <3>1. OffAll(Childs(K), C, p)
      <4>1. \A q \in K : p \notin ToSet(C[p_child(q)])
        BY <2>2, <1>1, <1>2
      <4> QED
        BY <4>1 DEF OffAll, Childs
    <3>2. TakenOut(Childs(K), C, p) = C
      BY <3>1, <1>1, TakenOff
    <3> QED
      BY <3>2, <2>2, <1>1, <1>5
  <2> QED
    BY <2>1, <2>2
<1>7. Tree(fr, M, K, p_parent)
  <2>1. \A q \in K : p_child(q) \in Childs(K)
    BY DEF Childs
  <2>2. \A g \in Childs(K) : ToSet(M[g]) = ToSet(C[g]) \ {p}
    BY <1>1, ListedTaken
  <2>3. \A g \in Childs(K) : C[g] = <<>> => M[g] = <<>>
    BY RemoveNothing DEF TakenOut
  <2> HIDE DEF M
  <2> QED
    BY <2>1, <2>2, <2>3, <1>1 DEF Tree
<1>8. KidsOf(K, M) = OrphanedOf(AChild, p)
  BY <1>1, KidsTaken
<1> HIDE DEF M
<1>9. p_parent' = p_parent
  BY <1>5
<1>10. /\ IInv' /\ AFree' = AFree /\ AReady' = AReady /\ AProcq' = AProcq
       /\ AChild' = KidsOf(K, M)
  BY <1>5, <1>6, <1>7, <1>9, TreeMoves DEF K, fr
<1>11. abstract!outChild(p)
  BY <1>5, <1>8, <1>10, AbstractOutChild
<1> QED
  BY <1>10, <1>11

(* insertChild: the child leaves the parent it had and is the youngest of  *)
(* the new one.                                                            *)
LEMMA StepInsertChild ==
  ASSUME IInv, NEW p \in KnownIn(p_sib), NEW q \in KnownIn(p_sib),
         abstract!MayAdopt(q, p), insertChild(q, p)
  PROVE  IInv' /\ abstract!insertChild(q, p)
<1> DEFINE K == KnownIn(p_sib)
           C == SQ(p_sib)
           T == TakenOut(Childs(K), C, p)
           h == p_child(q)
           t == Append(RemoveFirst(C[h], p), p)
           M == SetAt(T, h, t)
           fr == PQ(p_list)[pcbFree_h]
           par == [p_parent EXCEPT ![p] = q]
<1>1. /\ Listed(SNodes, Childs(K), K, p_sib, C) /\ K \in SUBSET Pcb /\ p \in K /\ q \in K
      /\ AChild = KidsOf(K, C) /\ Tree(fr, C, K, p_parent) /\ AFree = fr
  BY Here DEF TreeOK
<1>2. h \in Childs(K) /\ AChild[q] = C[h] /\ \A r \in K : p_child(r) \in Childs(K)
  BY <1>1, Relatives DEF Childs
<1>3. q # p /\ p \notin ToSet(fr) /\ q \notin ToSet(fr)
  BY <1>1, GuardAdopt
<1>4. /\ Returns("insertChild", <<q, p>>, NULL) /\ p_parent' = par
      /\ p_sib' = list_add_tail(list_delete_safe(p_sib, p), p, h)
      /\ UNCHANGED <<p_list, semLists, p_semAdd>>
  BY DEF insertChild, list_add_tail_safe
<1> HIDE DEF K, C, fr, h
<1>5. Listed(SNodes, Childs(K), K, p_sib', M)
  <2>1. Listed(SNodes, Childs(K), K, list_add_tail(list_delete_safe(p_sib, p), p, h),
               [T EXCEPT ![h] = t])
    BY <1>1, <1>2, ListedMove
  <2> QED
    BY <2>1, <1>4 DEF SetAt
<1>6. /\ DOMAIN T = Childs(K)
      /\ \A g \in Childs(K) : T[g] = RemoveFirst(C[g], p) /\ (C[g] = <<>> => T[g] = <<>>)
  BY RemoveNothing DEF TakenOut
<1>7. /\ \A g \in Childs(K) : ToSet(T[g]) = ToSet(C[g]) \ {p} /\ T[g] \in Seq(K)
  <2>1. \A g \in Childs(K) : C[g] \in Seq(K) /\ IsInjective(C[g])
    BY <1>1, ListedEach
  <2> HIDE DEF T
  <2> QED
    BY <2>1, <1>6, RemoveFirstQueue
<1>8. KidsOf(K, M) = SetAt(OrphanedOf(AChild, p), q, t)
  <2>1. KidsOf(K, T) = OrphanedOf(AChild, p)
    BY <1>1, KidsTaken
  <2> HIDE DEF T, t
  <2>2. KidsOf(K, SetAt(T, p_child(q), t)) = SetAt(KidsOf(K, T), q, t)
    BY <1>1, <1>6, KidsExcept
  <2> QED
    BY <2>1, <2>2 DEF h
<1>9. t = Append(RemoveFirst(AChild[q], p), p)
  BY <1>2
<1>10. M[h] = t /\ ToSet(t) = ToSet(T[h]) \cup {p} /\ \A g \in Childs(K) : g # h => M[g] = T[g]
  <2> DEFINE s == T[h]
  <2>1. s \in Seq(K)
    BY <1>2, <1>7
  <2>2. t = Append(s, p)
    BY <1>2, <1>6
  <2> HIDE DEF s, T, t
  <2>3. ToSet(Append(s, p)) = ToSet(s) \cup {p}
    BY <1>1, <2>1, AppendQueue
  <2>4. M[h] = t /\ \A g \in Childs(K) : g # h => M[g] = T[g]
    BY <1>2, <1>6 DEF SetAt
  <2> QED
    BY <2>2, <2>3, <2>4 DEF s
<1> HIDE DEF M, T, t
<1>11. Tree(fr, M, K, par)
  <2>1. /\ p_parent \in [Pcb -> K \cup {NULL}]
        /\ \A r \in K : \A c \in ToSet(C[p_child(r)]) : p_parent[c] = r
        /\ \A f \in ToSet(fr) : /\ f \in K => C[p_child(f)] = <<>>
                                /\ \A r \in K : f \notin ToSet(C[p_child(r)])
    BY <1>1 DEF Tree
  <2>2. par \in [Pcb -> K \cup {NULL}] /\ par[p] = q /\ \A c : c # p => par[c] = p_parent[c]
    BY <1>1, <2>1
  <2> HIDE DEF par
  <2>3. \A r \in K : p_child(r) = h => r = q
    BY Apartness DEF h
  <2>4. \A r \in K : \A c \in ToSet(M[p_child(r)]) : par[c] = r
    <3> TAKE r \in K
    <3> TAKE c \in ToSet(M[p_child(r)])
    <3>1. CASE r = q
      BY <3>1, <1>2, <1>7, <1>10, <2>1, <2>2 DEF h
    <3>2. CASE r # q
      BY <3>2, <1>2, <1>7, <1>10, <2>1, <2>2, <2>3
    <3> QED
      BY <3>1, <3>2
  <2>5. \A f \in ToSet(fr) : f \in K => M[p_child(f)] = <<>>
    BY <1>2, <1>3, <1>6, <1>10, <2>1, <2>3
  <2>6. \A f \in ToSet(fr) : \A r \in K : f \notin ToSet(M[p_child(r)])
    BY ZenonT(40), <1>2, <1>3, <1>7, <1>10, <2>1
  <2> QED
    BY <2>2, <2>4, <2>5, <2>6 DEF Tree
<1>12. /\ IInv' /\ AFree' = AFree /\ AReady' = AReady /\ AProcq' = AProcq
       /\ AChild' = KidsOf(K, M)
  <2>1. Tree(fr, M, K, p_parent')
    BY <1>4, <1>11
  <2> QED
    BY <1>4, <1>5, <2>1, TreeMoves DEF K, fr
<1>13. AChild' = [OrphanedOf(AChild, p) EXCEPT ![q] = Append(RemoveFirst(AChild[q], p), p)]
  BY <1>8, <1>9, <1>12 DEF M, SetAt
<1>14. q \in Pcb
  BY <1>1
<1>15. abstract!insertChild(q, p)
  <2>1. p_parent' = [p_parent EXCEPT ![p] = q] /\ p_semAdd' = p_semAdd
    BY <1>4
  <2> QED
    BY <2>1, <1>4, <1>12, <1>13, <1>14, AbstractInsertChild
<1> QED
  BY <1>12, <1>15

-----------------------------------------------------------------------------
(* Allocation *)

(* allocPcb of Queues, when there is a free PCB,                           *)
LEMMA AbstractAllocPcb ==
  ASSUME AFree # <<>>, NEW p, p = Head(AFree), Returns("allocPcb", <<>>, p),
         AFree' = Tail(AFree), AReady' = AReady, AProcq' = AProcq,
         AChild' = [AChild EXCEPT ![p] = <<>>],
         p_semAdd' = [p_semAdd EXCEPT ![p] = NULL], p_parent' = [p_parent EXCEPT ![p] = NULL]
  PROVE  abstract!allocPcb
  BY DEF abstract!allocPcb, abstract!Returns, Returns, AFree, AReady, AProcq, AChild

(* and when there is none.                                                 *)
LEMMA AbstractAllocNone ==
  ASSUME AFree = <<>>, Returns("allocPcb", <<>>, NULL),
         AFree' = AFree, AReady' = AReady, AProcq' = AProcq, AChild' = AChild,
         p_semAdd' = p_semAdd, p_parent' = p_parent
  PROVE  abstract!allocPcb
  BY DEF abstract!allocPcb, abstract!Returns, Returns, AFree, AReady, AProcq, AChild

(* The lists of the siblings once p is known.                              *)
Fresh(K, C, p) ==
  [g \in Childs(K) \cup {p_child(p)} |-> IF g = p_child(p) THEN <<>> ELSE C[g]]

(* reset on a PCB without relatives makes an empty list of children and    *)
(* links it to itself.                                                     *)
LEMMA SiblingsReset ==
  ASSUME NEW K \in SUBSET Pcb, NEW m, NEW C, Listed(SNodes, Childs(K), K, m, C), NEW p \in Pcb,
         p \in K => C[p_child(p)] = <<>>, \A q \in K : p \notin ToSet(C[p_child(q)])
  PROVE  /\ Listed(SNodes, Childs(K \cup {p}), K \cup {p},
                   INIT_LIST_HEAD(INIT_LIST_HEAD(m, p_child(p)), p), Fresh(K, C, p))
         /\ \A q \in K : Fresh(K, C, p)[p_child(q)] = C[p_child(q)]
         /\ Fresh(K, C, p)[p_child(p)] = <<>>
         /\ KidsOf(K \cup {p}, Fresh(K, C, p)) = SetAt(KidsOf(K, C), p, <<>>)
<1> DEFINE z == p_child(p)
           H == Childs(K)
           M == Fresh(K, C, p)
           r == INIT_LIST_HEAD(m, z)
<1>1. /\ z \in SNodes /\ z \notin Pcb /\ p \in SNodes /\ \A q \in Pcb : (p_child(q) = z => q = p)
      /\ \A q \in Pcb : p_child(q) \notin Pcb
  BY Apartness
<1>2. Childs(K \cup {p}) = H \cup {z}
  BY DEF Childs
<1>3. z \in H => C[z] = <<>>
  BY <1>1 DEF Childs
<1>4. p \notin H \cup {z}
  BY <1>1 DEF Childs
<1>5. Listed(SNodes, H \cup {z}, K, r, M)
  <2>1. z \in SNodes \ K
    BY <1>1
  <2> HIDE DEF z, H, r
  <2>2. Listed(SNodes, H \cup {z}, K, INIT_LIST_HEAD(m, z),
               [g \in H \cup {z} |-> IF g = z THEN <<>> ELSE C[g]])
    BY <2>1, <1>3, ListedInit DEF H
  <2> QED
    BY <2>2 DEF r, Fresh, H, z
<1>6. /\ \A g \in H \cup {z} : M[g] = IF g = z THEN <<>> ELSE C[g]
      /\ DOMAIN M = H \cup {z}
  BY DEF Fresh
<1>7. \A q \in K : M[p_child(q)] = C[p_child(q)] /\ p_child(q) \in H
  BY <1>1, <1>6 DEF Childs
<1>8. M[z] = <<>>
  BY <1>6
<1>9. OffAll(H \cup {z}, M, p)
  <2>1. \A q \in K : p \notin ToSet(M[p_child(q)])
    BY <1>7
  <2>2. p \notin ToSet(M[z])
    BY <1>8, EmptyQueue
  <2> QED
    BY <2>1, <2>2 DEF OffAll, Childs
<1>10. Listed(SNodes, H \cup {z}, K \cup {p}, INIT_LIST_HEAD(r, p), M)
  <2> HIDE DEF z, H, r, M
  <2>1. p \in SNodes \ (H \cup {z})
    BY <1>1, <1>4
  <2> QED
    BY <2>1, <1>5, <1>9, ListedInitEntry
<1>11. KidsOf(K \cup {p}, M) = [KidsOf(K, C) EXCEPT ![p] = <<>>]
  <2> HIDE DEF z, H, r, M
  <2>1. \A q \in Pcb : KidsOf(K \cup {p}, M)[q] = [KidsOf(K, C) EXCEPT ![p] = <<>>][q]
    BY <1>7, <1>8 DEF KidsOf, z
  <2> QED
    BY <2>1 DEF KidsOf
<1> QED
  BY <1>2, <1>7, <1>8, <1>10, <1>11 DEF SetAt

(* allocPcb: the first free PCB is handed out, without relatives.          *)
LEMMA StepAllocPcb ==
  ASSUME IInv, allocPcb
  PROVE  IInv' /\ abstract!allocPcb
<1> DEFINE H == PHeads(p_list)
           Q == PQ(p_list)
           h == pcbFree_h
           K == KnownIn(p_sib)
           C == SQ(p_sib)
           F == FQ(s_freelink)
           L == HQ(s_link)
<1>1. /\ Listed(PNodes, H, Pcb, p_list, Q) /\ DOMAIN Q = H
      /\ h \in H /\ g_ready_queue \in H /\ h # g_ready_queue /\ h \notin Semd
      /\ Listed(SNodes, Childs(K), K, p_sib, C) /\ K \in SUBSET Pcb
      /\ Listed(FNodes, FHead, Semd, s_freelink, F)
      /\ Strands(Buckets, Semd, s_link, L, {})
      /\ Sems(Q, F[semdFree_h], L, s_key, p_semAdd)
      /\ Tree(Q[h], C, K, p_parent)
      /\ AFree = Q[h] /\ AReady = Q[g_ready_queue]
      /\ AProcq = Served(Q, L, s_key) /\ AChild = KidsOf(K, C)
  BY Here, Apartness DEF SemsOK, TreeOK
<1>2. UNCHANGED semLists
  BY DEF allocPcb
<1>3. s_freelink' = s_freelink /\ s_link' = s_link /\ s_key' = s_key
  BY <1>2 DEF semLists
<1> HIDE DEF H, Q, K, C, F, L, h
<1>4. /\ Q[h] \in Seq(Pcb) /\ IsInjective(Q[h])
      /\ list_empty(p_list, h) <=> Q[h] = <<>>
  BY <1>1, ListedFacts
<1>5. CASE Q[h] = <<>>
  <2>1. /\ Returns("allocPcb", <<>>, NULL)
        /\ p_list' = p_list /\ p_sib' = p_sib /\ p_parent' = p_parent /\ p_semAdd' = p_semAdd
    BY <1>4, <1>5 DEF allocPcb, h, procLists
  <2>2. /\ Listed(PNodes, H, Pcb, p_list', Q)
        /\ Listed(SNodes, Childs(K), K, p_sib', C)
        /\ Listed(FNodes, FHead, Semd, s_freelink', F)
        /\ Strands(Buckets, Semd, s_link', L, {})
        /\ Sems(Q, F[semdFree_h], L, s_key', p_semAdd') /\ Tree(Q[h], C, K, p_parent')
    BY <1>1, <1>3, <2>1
  <2>3. /\ IInv' /\ AFree' = Q[h] /\ AReady' = Q[g_ready_queue]
        /\ AProcq' = Served(Q, L, s_key') /\ AChild' = KidsOf(K, C)
    BY <1>1, <2>2, Reached DEF h
  <2>4. abstract!allocPcb
    BY <1>1, <1>3, <1>5, <2>1, <2>3, AbstractAllocNone
  <2> QED
    BY <2>3, <2>4
<1>6. CASE Q[h] # <<>>
  <2> DEFINE p == Head(Q[h])
             M == SetAt(Q, h, Tail(Q[h]))
             D == Fresh(K, C, p)
             J == K \cup {p}
             par == [p_parent EXCEPT ![p] = NULL]
  <2>1. p_list.next[h] = p /\ p \in Pcb /\ p \in ToSet(Q[h])
    BY <1>1, <1>6, ListedPop
  <2>2. Listed(PNodes, H, Pcb, list_delete_safe(p_list, p), M)
    BY <1>1, <1>6, ListedPopped
  <2>3. /\ Returns("allocPcb", <<>>, p)
        /\ p_list' = list_delete_safe(p_list, p)
        /\ p_sib' = INIT_LIST_HEAD(INIT_LIST_HEAD(p_sib, p_child(p)), p)
        /\ p_parent' = par
        /\ p_semAdd' = [p_semAdd EXCEPT ![p] = NULL]
    BY <1>4, <1>6, <2>1 DEF allocPcb, h, reset
  <2>4. /\ ToSet(Tail(Q[h])) \subseteq ToSet(Q[h]) /\ p \notin ToSet(Tail(Q[h]))
    <3> DEFINE q == Q[h]
    <3>1. q \in Seq(Pcb) /\ q # <<>> /\ IsInjective(q)
      BY <1>4, <1>6
    <3> HIDE DEF q
    <3>2. ToSet(q) = ToSet(Tail(q)) \cup {Head(q)} /\ Head(q) \notin ToSet(Tail(q))
      BY <3>1, TailQueue
    <3> QED
      BY <3>2 DEF q
  <2>5. AFree # <<>> /\ p = Head(AFree)
    BY <1>1, <1>6
  <2>6. M[h] = Tail(AFree) /\ M[h] = Tail(Q[h]) /\ \A g \in H : g # h => M[g] = Q[g]
    BY <1>1 DEF SetAt
  <2>7. DOMAIN M = DOMAIN Q
    BY DEF SetAt
  <2> HIDE DEF p, M, D, J
  <2>8. /\ p \in K => C[p_child(p)] = <<>>
        /\ \A q \in K : p \notin ToSet(C[p_child(q)])
    BY <1>1, <2>1 DEF Tree
  <2>9. /\ Listed(SNodes, Childs(J), J, p_sib', D)
        /\ \A q \in K : D[p_child(q)] = C[p_child(q)]
        /\ D[p_child(p)] = <<>>
        /\ KidsOf(J, D) = [AChild EXCEPT ![p] = <<>>]
    <3>1. p_sib' = INIT_LIST_HEAD(INIT_LIST_HEAD(p_sib, p_child(p)), p)
      BY <2>3
    <3>2. /\ K \in SUBSET Pcb /\ Listed(SNodes, Childs(K), K, p_sib, C) /\ p \in Pcb
          /\ AChild = KidsOf(K, C)
      BY <1>1, <2>1
    <3>3. /\ Listed(SNodes, Childs(J), J, INIT_LIST_HEAD(INIT_LIST_HEAD(p_sib, p_child(p)), p), D)
          /\ \A q \in K : D[p_child(q)] = C[p_child(q)]
          /\ D[p_child(p)] = <<>>
          /\ KidsOf(J, D) = SetAt(KidsOf(K, C), p, <<>>)
      BY <3>2, <2>8, SiblingsReset DEF J, D
    <3> QED
      BY <3>1, <3>2, <3>3 DEF SetAt
  <2>10. p_semAdd[p] = NULL
    <3>1. CASE p_semAdd[p] # NULL
      <4>1. PICK d \in InBuckets(L) : p \in ToSet(Q[d])
        BY <3>1, <1>1, <2>1, NotBlocked
      <4>2. d \in H /\ d \in Semd
        BY <1>1 DEF Sems, Hashed, InBuckets
      <4>3. \A g, k \in H : g # k => ToSet(Q[g]) \cap ToSet(Q[k]) = {}
        BY <1>1 DEF Listed
      <4>4. FALSE
        BY <4>1, <4>2, <4>3, <1>1, <2>1
      <4> QED
        BY <4>4
    <3> QED
      BY <3>1
  <2>11. p_semAdd' = p_semAdd
    BY <2>1, <2>3, <2>10, <1>1 DEF Sems, KeyTypes
  <2>12. Sems(M, F[semdFree_h], L, s_key, p_semAdd) /\ Served(M, L, s_key) = Served(Q, L, s_key)
    <3>1. \A d \in DOMAIN Q \cap Semd : M[d] = Q[d]
      BY <1>1, <2>6
    <3> QED
      BY <3>1, <1>1, <2>7, KeepSems
  <2>13. Tree(M[h], D, J, par)
    <3>1. /\ p_parent \in [Pcb -> K \cup {NULL}]
          /\ \A r \in K : \A c \in ToSet(C[p_child(r)]) : p_parent[c] = r
          /\ \A f \in ToSet(Q[h]) : /\ f \in K => C[p_child(f)] = <<>>
                                    /\ \A r \in K : f \notin ToSet(C[p_child(r)])
      BY <1>1 DEF Tree
    <3>2. par \in [Pcb -> J \cup {NULL}] /\ \A c : c # p => par[c] = p_parent[c]
      BY <2>1, <3>1 DEF J
    <3> HIDE DEF par
    <3>3. \A c : c \notin ToSet(D[p_child(p)])
      BY <2>9, EmptyQueue
    <3>4. \A r \in J : \A c \in ToSet(D[p_child(r)]) : par[c] = r
      BY <2>8, <2>9, <3>1, <3>2, <3>3 DEF J
    <3>5. \A f \in ToSet(M[h]) : /\ f \in J => D[p_child(f)] = <<>>
                                 /\ \A r \in J : f \notin ToSet(D[p_child(r)])
      BY <2>4, <2>6, <2>9, <3>1, <3>3 DEF J
    <3> QED
      BY <3>2, <3>4, <3>5 DEF Tree
  <2> HIDE DEF par
  <2>14. /\ Listed(PNodes, H, Pcb, p_list', M)
         /\ Listed(SNodes, Childs(J), J, p_sib', D) /\ J \in SUBSET Pcb
         /\ Listed(FNodes, FHead, Semd, s_freelink', F)
         /\ Strands(Buckets, Semd, s_link', L, {})
         /\ Sems(M, F[semdFree_h], L, s_key', p_semAdd') /\ Tree(M[h], D, J, p_parent')
    BY <1>1, <1>3, <2>1, <2>2, <2>3, <2>9, <2>11, <2>12, <2>13 DEF J, M, p
  <2>15. /\ IInv' /\ AFree' = M[h] /\ AReady' = M[g_ready_queue]
         /\ AProcq' = Served(M, L, s_key') /\ AChild' = KidsOf(J, D)
    BY <1>1, <2>14, Reached DEF h
  <2>16. /\ AFree' = Tail(AFree) /\ AReady' = AReady /\ AProcq' = AProcq
         /\ AChild' = [AChild EXCEPT ![p] = <<>>]
    BY <1>1, <1>3, <2>6, <2>9, <2>12, <2>15
  <2>17. abstract!allocPcb
    BY <2>3, <2>5, <2>16, AbstractAllocPcb DEF par
  <2> QED
    BY <2>15, <2>17
<1> QED
  BY <1>5, <1>6

-----------------------------------------------------------------------------
(* Semaphores *)

(* headBlocked of Queues.                                                  *)
LEMMA AbstractHeadBlocked ==
  ASSUME NEW s, Returns("headBlocked", <<s>>, FirstOf(AProcq[s])),
         AFree' = AFree, AReady' = AReady, AProcq' = AProcq, AChild' = AChild,
         p_semAdd' = p_semAdd, p_parent' = p_parent
  PROVE  abstract!headBlocked(s)
  BY DEF abstract!headBlocked, abstract!Returns, Returns, abstract!First, FirstOf,
         AFree, AReady, AProcq, AChild

(* removeBlocked of Queues.                                                *)
LEMMA AbstractRemoveBlocked ==
  ASSUME NEW s, Returns("removeBlocked", <<s>>, FirstOf(AProcq[s])),
         AProcq' = IF AProcq[s] = <<>> THEN AProcq ELSE [AProcq EXCEPT ![s] = Tail(AProcq[s])],
         p_semAdd' = IF AProcq[s] = <<>> THEN p_semAdd
                                         ELSE [p_semAdd EXCEPT ![Head(AProcq[s])] = NULL],
         AFree' = AFree, AReady' = AReady, AChild' = AChild, p_parent' = p_parent
  PROVE  abstract!removeBlocked(s)
  BY DEF abstract!removeBlocked, abstract!Returns, Returns, abstract!First, FirstOf,
         AFree, AReady, AProcq, AChild

(* outBlocked of Queues.                                                   *)
LEMMA AbstractOutBlocked ==
  ASSUME NEW p \in Pcb, Returns("outBlocked", <<p>>, IF p_semAdd[p] # NULL THEN p ELSE NULL),
         AProcq' = IF p_semAdd[p] # NULL
                   THEN [AProcq EXCEPT ![p_semAdd[p]] = RemoveFirst(AProcq[p_semAdd[p]], p)]
                   ELSE AProcq,
         p_semAdd' = IF p_semAdd[p] # NULL THEN [p_semAdd EXCEPT ![p] = NULL] ELSE p_semAdd,
         AFree' = AFree, AReady' = AReady, AChild' = AChild, p_parent' = p_parent
  PROVE  abstract!outBlocked(p)
<1>1. p \in abstract!Blocked <=> p_semAdd[p] # NULL
  BY DEF abstract!Blocked
<1> QED
  BY <1>1, QueuesOperators DEF abstract!outBlocked, abstract!Returns, Returns,
     AFree, AReady, AProcq, AChild

(* The queue of a hashed descriptor, seen from the pointers.               *)
LEMMA SemSeen ==
  ASSUME IInv, NEW d \in InBuckets(HQ(s_link))
  PROVE  /\ d \in PHeads(p_list) /\ d \in Semd /\ s_key[d] \in SemKey
         /\ PQ(p_list)[d] # <<>> /\ PQ(p_list)[d] \in Seq(Pcb) /\ IsInjective(PQ(p_list)[d])
         /\ list_for_each(p_list, d) = PQ(p_list)[d] /\ ~ emptyProcQ(p_list, d)
         /\ p_list.next[d] = Head(PQ(p_list)[d])
         /\ AProcq[s_key[d]] = PQ(p_list)[d]
<1> DEFINE H == PHeads(p_list)
           Q == PQ(p_list)
           L == HQ(s_link)
<1>1. /\ Listed(PNodes, H, Pcb, p_list, Q) /\ DOMAIN Q = H
      /\ Sems(Q, FQ(s_freelink)[semdFree_h], L, s_key, p_semAdd)
      /\ AProcq = Served(Q, L, s_key)
  BY Here DEF SemsOK
<1> HIDE DEF H, Q
<1>2. d \in H /\ s_key[d] \in SemKey /\ Q[d] # <<>> /\ KeysDistinct(L, s_key) /\ d \in Semd
  BY <1>1 DEF Sems, Hashed, InBuckets
<1>3. /\ Q[d] \in Seq(Pcb) /\ IsInjective(Q[d]) /\ list_for_each(p_list, d) = Q[d]
      /\ list_empty(p_list, d) <=> Q[d] = <<>>
      /\ Q[d] # <<>> => p_list.next[d] = Head(Q[d])
  BY <1>1, <1>2, ListedFacts
<1>4. Served(Q, L, s_key)[s_key[d]] = Q[d]
  BY <1>2, ServedBy
<1> QED
  BY <1>1, <1>2, <1>3, <1>4 DEF H, Q, emptyProcQ

(* A process leaves the queue of its semaphore.                            *)
LEMMA Unblocked ==
  ASSUME IInv, NEW d \in InBuckets(HQ(s_link)), NEW p \in ToSet(PQ(p_list)[d]),
         unblock(d, p), UNCHANGED <<p_sib, p_parent>>
  PROVE  /\ IInv' /\ AFree' = AFree /\ AReady' = AReady /\ AChild' = AChild
         /\ AProcq' = SetAt(AProcq, s_key[d], RemoveFirst(PQ(p_list)[d], p))
<1> DEFINE H == PHeads(p_list)
           Q == PQ(p_list)
           K == KnownIn(p_sib)
           C == SQ(p_sib)
           F == FQ(s_freelink)
           f == semdFree_h
           L == HQ(s_link)
           M == TakenOut(H, Q, p)
           t == RemoveFirst(Q[d], p)
           h == Hash(s_key[d])
           Done == /\ IInv' /\ AFree' = AFree /\ AReady' = AReady /\ AChild' = AChild
                   /\ AProcq' = SetAt(AProcq, s_key[d], t)
<1>1. /\ Listed(PNodes, H, Pcb, p_list, Q) /\ DOMAIN Q = H
      /\ pcbFree_h \in H /\ g_ready_queue \in H
      /\ pcbFree_h \notin Semd /\ g_ready_queue \notin Semd
      /\ Listed(SNodes, Childs(K), K, p_sib, C) /\ K \in SUBSET Pcb
      /\ Listed(FNodes, FHead, Semd, s_freelink, F) /\ f \in FHead /\ FHead = {f}
      /\ Strands(Buckets, Semd, s_link, L, {})
      /\ Sems(Q, F[f], L, s_key, p_semAdd)
      /\ Tree(Q[pcbFree_h], C, K, p_parent)
      /\ AFree = Q[pcbFree_h] /\ AReady = Q[g_ready_queue]
      /\ AProcq = Served(Q, L, s_key) /\ AChild = KidsOf(K, C)
  BY Here, Apartness DEF SemsOK, TreeOK
<1>2. d \in H /\ d \in Semd /\ s_key[d] \in SemKey /\ Q[d] \in Seq(Pcb) /\ IsInjective(Q[d])
  BY SemSeen
<1>3. BucketsOK(L)
  BY Here, HBuckets
<1>4. /\ p_list' = list_delete_safe(p_list, p) /\ p_semAdd' = [p_semAdd EXCEPT ![p] = NULL]
      /\ p_sib' = p_sib /\ p_parent' = p_parent
      /\ free_semd_ifempty(d, p_list')
  BY DEF unblock
<1>5. h \in Buckets /\ d \in ToSet(L[h])
  BY <1>1, <1>2, HashInBuckets DEF Sems, Hashed, Hash
<1>6. p \in Pcb
  BY <1>2 DEF ToSet
<1> HIDE DEF H, Q, K, C, F, L, f, h
<1>7. Listed(PNodes, H, Pcb, p_list', M)
  BY <1>1, <1>4, <1>6, ListedTaken
<1>8. M = [Q EXCEPT ![d] = t]
  <2>1. p \in ToSet(Q[d])
    BY DEF Q
  <2> QED
    BY <1>1, <1>2, <2>1, TakenFrom
<1>9. DOMAIN M = H /\ M[d] = t /\ \A g \in H : g # d => M[g] = Q[g]
  BY <1>1, <1>2, <1>8
<1>10. ToSet(t) = ToSet(Q[d]) \ {p} /\ t \in Seq(Pcb)
  BY <1>2, RemoveFirstQueue
<1>11. emptyProcQ(p_list', d) <=> t = <<>>
  <2>1. list_empty(p_list', d) <=> M[d] = <<>>
    BY <1>2, <1>7, ListedFacts
  <2> QED
    BY <2>1, <1>9 DEF emptyProcQ
<1>12. /\ M[pcbFree_h] = Q[pcbFree_h] /\ M[g_ready_queue] = Q[g_ready_queue]
       /\ \A e \in DOMAIN Q \cap Semd : e # d => M[e] = Q[e]
       /\ DOMAIN M = DOMAIN Q
  BY <1>1, <1>2, <1>9
<1>13. p \in ToSet(Q[d]) /\ d \in InBuckets(L)
  BY DEF Q, L
<1> HIDE DEF M, t
<1>14. ASSUME NEW G, Listed(FNodes, FHead, Semd, s_freelink', G),
              NEW N, Strands(Buckets, Semd, s_link', N, {}), s_key' = s_key,
              Sems(M, G[f], N, s_key, p_semAdd'),
              Served(M, N, s_key) = SetAt(Served(Q, L, s_key), s_key[d], t)
       PROVE  Done
  <2>1. /\ Listed(PNodes, H, Pcb, p_list', M)
        /\ Listed(SNodes, Childs(K), K, p_sib', C)
        /\ Sems(M, G[semdFree_h], N, s_key', p_semAdd') /\ Tree(M[pcbFree_h], C, K, p_parent')
    BY <1>1, <1>4, <1>7, <1>12, <1>14 DEF f
  <2>2. /\ IInv' /\ AFree' = M[pcbFree_h] /\ AReady' = M[g_ready_queue]
        /\ AProcq' = Served(M, N, s_key') /\ AChild' = KidsOf(K, C)
    BY <1>1, <1>14, <2>1, Reached
  <2> QED
    BY <1>1, <1>12, <1>14, <2>2
<1>17. s_key[d] \in SemKey /\ p_semAdd \in [Pcb -> SemKey \cup {NULL}]
  BY <1>1, <1>2 DEF Sems, KeyTypes
<1> DEFINE b == [p_semAdd EXCEPT ![p] = NULL]
<1>18. Assigned(p_semAdd, b, p, NULL) /\ p_semAdd' = b
  BY <1>4, <1>6, <1>17, Assigns
<1> HIDE DEF b, Done
<1>15. ASSUME t # <<>> PROVE Done
  <2>1. s_freelink' = s_freelink /\ s_link' = s_link /\ s_key' = s_key
    BY <1>4, <1>11, <1>15 DEF free_semd_ifempty, semLists
  <2>3. /\ M[d] # <<>> /\ ToSet(M[d]) = ToSet(Q[d]) \ {p}
    BY <1>9, <1>10, <1>15
  <2>4. /\ Sems(M, F[f], L, s_key, b)
        /\ Served(M, L, s_key) = SetAt(Served(Q, L, s_key), s_key[d], M[d])
    BY <1>1, <1>6, <1>12, <1>13, <1>18, <2>3, LeaveSem
  <2> QED
    BY <1>1, <1>9, <1>14, <1>18, <2>1, <2>4
<1>16. ASSUME t = <<>> PROVE Done
  <2> DEFINE G == [F EXCEPT ![f] = <<d>> \o F[f]]
             N == [L EXCEPT ![h] = RemoveFirst(L[h], d)]
  <2>1. s_freelink' = list_add(s_freelink, d, f) /\ s_link' = hlist_del_init(s_link, d) /\ s_key' = s_key
    BY <1>4, <1>11, <1>16 DEF free_semd_ifempty, hash_del, f
  <2>2. d \notin ToSet(F[f])
    BY <1>1, <1>13 DEF Sems, Unhashed
  <2>3. Listed(FNodes, FHead, Semd, s_freelink', G)
    <3>1. OffAll(FHead, F, d)
      BY <1>1, <2>2 DEF OffAll
    <3>2. d \in FNodes \ FHead /\ Semd \cup {d} = Semd
      BY <1>1, <1>2, Apartness DEF f
    <3> HIDE DEF G
    <3>3. Listed(FNodes, FHead, Semd \cup {d}, list_add(s_freelink, d, f), G)
      BY <1>1, <3>1, <3>2, ListedAdd DEF G
    <3> QED
      BY <3>2, <3>3, <2>1
  <2>4. Strands(Buckets, Semd, s_link', N, {})
    <3>1. HSets(Buckets, Semd)
      BY Buckets_Semd
    <3> HIDE DEF N
    <3>2. Strands(Buckets, Semd, hlist_del_init(s_link, d), N, {})
      BY <1>1, <1>5, <3>1, HashDel DEF N
    <3> QED
      BY <3>2, <2>1
  <2>5. G[f] = <<d>> \o F[f] /\ F[f] \in Seq(Semd)
    BY <1>1 DEF Listed
  <2>6. ToSet(G[f]) = ToSet(F[f]) \cup {d}
    <3> DEFINE q == F[f]
    <3>1. q \in Seq(Semd)
      BY <2>5
    <3> HIDE DEF q
    <3>2. ToSet(<<d>> \o q) = {d} \cup ToSet(q)
      BY <1>2, <3>1, PushStack
    <3> QED
      BY <3>2, <2>5 DEF q
  <2>7. N[h] = RemoveFirst(L[h], d) /\ \A c \in Buckets : c # h => N[c] = L[c]
    BY <1>3, <1>5 DEF BucketsOK
  <2> HIDE DEF G, N
  <2>9. M[d] = <<>> /\ ToSet(Q[d]) = {p}
    <3>1. ToSet(t) = {}
      BY <1>16, EmptyQueue
    <3> QED
      BY <3>1, <1>9, <1>10, <1>13, <1>16
  <2>10. /\ Sems(M, G[f], N, s_key, b)
         /\ Served(M, N, s_key) = SetAt(Served(Q, L, s_key), s_key[d], <<>>)
    BY <1>1, <1>3, <1>5, <1>6, <1>12, <1>13, <1>18, <2>6, <2>7, <2>9, LeaveLast
  <2> QED
    BY <1>14, <1>16, <1>18, <2>1, <2>3, <2>4, <2>10
<1> QED
  BY <1>15, <1>16 DEF Done, t, Q

(* find_sem finds the descriptor of a semaphore that has a queue.          *)
LEMMA SemFound ==
  ASSUME IInv, NEW s \in SemKey
  PROVE  /\ find_sem(s) = NULL => AProcq[s] = <<>> /\ ~ Owned(HQ(s_link), s_key, s)
         /\ find_sem(s) # NULL =>
              /\ find_sem(s) \in InBuckets(HQ(s_link)) /\ s_key[find_sem(s)] = s
              /\ AProcq[s] # <<>> /\ AProcq[s] = PQ(p_list)[find_sem(s)]
         /\ \A d \in InBuckets(HQ(s_link)) : s_key[d] = s => find_sem(s) = d
<1> DEFINE L == HQ(s_link)
           Q == PQ(p_list)
           f == find_sem(s)
<1>1. /\ HOK(s_link) /\ Sems(Q, FQ(s_freelink)[semdFree_h], L, s_key, p_semAdd)
      /\ AProcq = Served(Q, L, s_key)
  BY Here DEF SemsOK
<1>2. f = FindIn(s_link, s_key, s)
  BY DEF find_sem, FindIn, Hash
<1> HIDE DEF f, Q
<1>3. /\ \A d \in InBuckets(L) : s_key[d] = s => f = d
      /\ f # NULL => f \in InBuckets(L) /\ s_key[f] = s
      /\ f = NULL <=> ~ Owned(L, s_key, s)
  BY <1>1, <1>2, FindOwner
<1>4. f = NULL => AProcq[s] = <<>>
  <2>1. KeysDistinct(L, s_key)
    BY <1>1 DEF Sems
  <2>2. ~ Owned(L, s_key, s) => Served(Q, L, s_key)[s] = <<>>
    BY <2>1, ServedIs
  <2> QED
    BY <2>2, <1>1, <1>3
<1>5. f # NULL => AProcq[s] # <<>> /\ AProcq[s] = Q[f]
  BY <1>3, SemSeen DEF Q
<1> QED
  BY <1>3, <1>4, <1>5 DEF f, Q

(* The first process of the queue of a semaphore, seen from the pointers.  *)
LEMMA FirstBlocked ==
  ASSUME IInv, NEW s \in SemKey, find_sem(s) # NULL
  PROVE  /\ ~ emptyProcQ(p_list, find_sem(s))
         /\ p_list.next[find_sem(s)] = Head(AProcq[s])
         /\ firstProcQ(find_sem(s)) = FirstOf(AProcq[s])
<1> DEFINE d == find_sem(s)
<1>1. d \in InBuckets(HQ(s_link)) /\ AProcq[s] # <<>> /\ AProcq[s] = PQ(p_list)[d]
  BY SemFound
<1> HIDE DEF d
<1>2. ~ emptyProcQ(p_list, d) /\ p_list.next[d] = Head(PQ(p_list)[d])
  BY <1>1, SemSeen
<1> QED
  BY <1>1, <1>2 DEF d, firstProcQ, FirstOf

(* Nothing changes but the result.                                         *)
LEMMA NothingMoves ==
  ASSUME IInv, UNCHANGED <<procLists, semLists, p_semAdd>>
  PROVE  /\ IInv' /\ AFree' = AFree /\ AReady' = AReady /\ AProcq' = AProcq /\ AChild' = AChild
         /\ p_semAdd' = p_semAdd /\ p_parent' = p_parent
<1>1. /\ p_list' = p_list /\ p_sib' = p_sib /\ p_parent' = p_parent
      /\ s_freelink' = s_freelink /\ s_link' = s_link /\ s_key' = s_key /\ p_semAdd' = p_semAdd
  BY DEF procLists, semLists
<1>2. IInv'
  BY <1>1 DEF IInv, SemsOK, TreeOK
<1> QED
  BY <1>1, <1>2, Views

(* headBlocked changes nothing.                                            *)
LEMMA StepHeadBlocked ==
  ASSUME IInv, NEW s \in SemKey, headBlocked(s)
  PROVE  IInv' /\ abstract!headBlocked(s)
<1>1. Returns("headBlocked", <<s>>, FirstOf(AProcq[s]))
  <2>1. CASE find_sem(s) = NULL
    BY <2>1, SemFound DEF headBlocked, FirstOf
  <2>2. CASE find_sem(s) # NULL
    BY <2>2, FirstBlocked DEF headBlocked
  <2> QED
    BY <2>1, <2>2
<1>2. UNCHANGED <<procLists, semLists, p_semAdd>>
  BY DEF headBlocked
<1> QED
  BY <1>1, <1>2, NothingMoves, AbstractHeadBlocked

(* removeBlocked: the first process leaves, perhaps with the descriptor.   *)
LEMMA StepRemoveBlocked ==
  ASSUME IInv, NEW s \in SemKey, removeBlocked(s)
  PROVE  IInv' /\ abstract!removeBlocked(s)
<1> DEFINE d == find_sem(s)
           q == AProcq[s]
<1>1. p_sib' = p_sib /\ p_parent' = p_parent
  BY DEF removeBlocked
<1>2. CASE d = NULL
  <2>1. q = <<>>
    BY <1>2, SemFound
  <2>2. Returns("removeBlocked", <<s>>, FirstOf(q)) /\ UNCHANGED <<procLists, semLists, p_semAdd>>
    BY <1>1, <1>2, <2>1 DEF removeBlocked, unblockNothing, FirstOf, procLists
  <2>3. /\ IInv' /\ AFree' = AFree /\ AReady' = AReady /\ AProcq' = AProcq /\ AChild' = AChild
        /\ p_semAdd' = p_semAdd
    BY <2>2, NothingMoves
  <2> QED
    BY <1>1, <2>1, <2>2, <2>3, AbstractRemoveBlocked
<1>3. CASE d # NULL
  <2>1. /\ d \in InBuckets(HQ(s_link)) /\ s_key[d] = s /\ q # <<>> /\ q = PQ(p_list)[d]
    BY <1>3, SemFound
  <2>2. ~ emptyProcQ(p_list, d) /\ p_list.next[d] = Head(q)
    BY <1>3, FirstBlocked
  <2> DEFINE p == Head(q)
  <2>3. unblock(d, p) /\ Returns("removeBlocked", <<s>>, p)
    BY <1>3, <2>2 DEF removeBlocked
  <2>4. q \in Seq(Pcb) /\ IsInjective(q)
    BY <2>1, SemSeen
  <2> HIDE DEF q, d
  <2>5. p \in ToSet(q) /\ RemoveFirst(q, p) = Tail(q)
    <3>1. \A i, j \in 1 .. Len(q) : q[i] = q[j] => i = j
      BY <2>4 DEF IsInjective
    <3> QED
      BY <2>1, <2>4, <3>1, HeadIndex
  <2>6. p \in ToSet(PQ(p_list)[d])
    BY <2>1, <2>5
  <2> HIDE DEF p
  <2>7. /\ IInv' /\ AFree' = AFree /\ AReady' = AReady /\ AChild' = AChild
        /\ AProcq' = SetAt(AProcq, s_key[d], RemoveFirst(PQ(p_list)[d], p))
    <3>1. UNCHANGED <<p_sib, p_parent>>
      BY <1>1
    <3> QED
      BY <2>1, <2>3, <2>6, <3>1, Unblocked
  <2>8. AProcq' = [AProcq EXCEPT ![s] = Tail(q)]
    BY <2>1, <2>5, <2>7 DEF SetAt
  <2>9. p_semAdd' = [p_semAdd EXCEPT ![p] = NULL]
    BY <2>3 DEF unblock
  <2>10. /\ q = AProcq[s] /\ p = Head(q)
    BY DEF q, p
  <2>11. Returns("removeBlocked", <<s>>, FirstOf(AProcq[s]))
    BY <2>1, <2>3, <2>10 DEF FirstOf
  <2> QED
    BY <1>1, <2>1, <2>7, <2>8, <2>9, <2>10, <2>11, AbstractRemoveBlocked
<1> QED
  BY <1>2, <1>3

(* outBlocked: the process leaves the queue of the semaphore its p_semAdd  *)
(* names.                                                                  *)
LEMMA StepOutBlocked ==
  ASSUME IInv, NEW p \in Pcb, outBlocked(p)
  PROVE  IInv' /\ abstract!outBlocked(p)
<1> DEFINE s == p_semAdd[p]
<1>0. p_sib' = p_sib /\ p_parent' = p_parent
  BY DEF outBlocked
<1>1. Sems(PQ(p_list), FQ(s_freelink)[semdFree_h], HQ(s_link), s_key, p_semAdd)
  BY Here DEF SemsOK
<1>2. CASE s = NULL
  <2>1. Returns("outBlocked", <<p>>, NULL) /\ UNCHANGED <<procLists, semLists, p_semAdd>>
    BY <1>0, <1>2 DEF outBlocked, unblockNothing, procLists
  <2>2. /\ IInv' /\ AFree' = AFree /\ AReady' = AReady /\ AProcq' = AProcq /\ AChild' = AChild
        /\ p_semAdd' = p_semAdd
    BY <2>1, NothingMoves
  <2> QED
    BY <1>0, <1>2, <2>1, <2>2, AbstractOutBlocked
<1>3. CASE s # NULL
  <2>1. PICK d \in InBuckets(HQ(s_link)) : s_key[d] = s /\ p \in ToSet(PQ(p_list)[d])
    BY <1>1, <1>3, NotBlocked
  <2>2. /\ s \in SemKey /\ list_for_each(p_list, d) = PQ(p_list)[d] /\ d \in Semd
        /\ AProcq[s] = PQ(p_list)[d]
    BY <2>1, SemSeen
  <2>3. find_sem(s) = d /\ d # NULL
    BY <2>1, <2>2, SemFound, Apartness
  <2>4. unblock(d, p) /\ Returns("outBlocked", <<p>>, p)
    BY <1>3, <2>1, <2>2, <2>3 DEF outBlocked
  <2>5. /\ IInv' /\ AFree' = AFree /\ AReady' = AReady /\ AChild' = AChild
        /\ AProcq' = SetAt(AProcq, s_key[d], RemoveFirst(PQ(p_list)[d], p))
    <3>1. UNCHANGED <<p_sib, p_parent>>
      BY <1>0
    <3> QED
      BY <2>1, <2>4, <3>1, Unblocked
  <2>6. AProcq' = [AProcq EXCEPT ![s] = RemoveFirst(AProcq[s], p)]
    BY <2>1, <2>2, <2>5 DEF SetAt
  <2>7. p_semAdd' = [p_semAdd EXCEPT ![p] = NULL]
    BY <2>4 DEF unblock
  <2> QED
    BY <1>0, <1>3, <2>4, <2>5, <2>6, <2>7, AbstractOutBlocked
<1> QED
  BY <1>2, <1>3

-----------------------------------------------------------------------------
(* Blocking *)

ACan(s) == \/ AProcq[s] # <<>>
           \/ Cardinality({u \in SemKey : AProcq[u] # <<>>}) < Cardinality(Semd)

(* Queues counts queues where the code looks for a descriptor.             *)
LEMMA GuardSemd ==
  ASSUME NEW s \in SemKey
  PROVE  abstract!HasSemd(s) <=> ACan(s)
<1>1. abstract!Active = {u \in SemKey : AProcq[u] # <<>>}
  BY DEF abstract!Active, AProcq
<1>2. s \in abstract!Active <=> AProcq[s] # <<>>
  BY <1>1
<1> DEFINE n == Cardinality(abstract!Active)
<1>3. n = Cardinality({u \in SemKey : AProcq[u] # <<>>})
  BY <1>1
<1>4. abstract!HasSemd(s) <=> s \in abstract!Active \/ n < Cardinality(Semd)
  BY QueuesOperators DEF abstract!HasSemd
<1> HIDE DEF n
<1> QED
  BY <1>2, <1>3, <1>4 DEF ACan

(* insertBlocked of Queues, when there is a descriptor,                    *)
LEMMA AbstractInsertBlocked ==
  ASSUME NEW s \in SemKey, NEW p, Returns("insertBlocked", <<s, p>>, FALSE), abstract!MayBlock(p),
         ACan(s), AFree' = RemoveFirst(AFree, p), AReady' = RemoveFirst(AReady, p),
         AProcq' = [AProcq EXCEPT ![s] = Append(AProcq[s], p)],
         p_semAdd' = [p_semAdd EXCEPT ![p] = s],
         AChild' = AChild, p_parent' = p_parent
  PROVE  abstract!insertBlocked(s, p)
<1>1. abstract!HasSemd(s)
  BY GuardSemd
<1> QED
  BY <1>1, QueuesOperators DEF abstract!insertBlocked, abstract!Returns, Returns,
     AFree, AReady, AProcq, AChild

(* and when there is none.                                                 *)
LEMMA AbstractInsertNone ==
  ASSUME NEW s \in SemKey, NEW p, Returns("insertBlocked", <<s, p>>, TRUE), abstract!MayBlock(p),
         ~ ACan(s), AFree' = AFree, AReady' = AReady, AProcq' = AProcq,
         p_semAdd' = p_semAdd, AChild' = AChild, p_parent' = p_parent
  PROVE  abstract!insertBlocked(s, p)
<1>1. ~ abstract!HasSemd(s)
  BY GuardSemd
<1> QED
  BY <1>1 DEF abstract!insertBlocked, abstract!Returns, Returns,
     AFree, AReady, AProcq, AChild

(* A descriptor is left exactly when there are fewer queues than           *)
(* descriptors.                                                            *)
LEMMA DescriptorsLeft ==
  ASSUME IInv, NEW s \in SemKey
  PROVE  ACan(s) <=> find_sem(s) # NULL \/ ~ list_empty(s_freelink, semdFree_h)
<1> DEFINE L == HQ(s_link)
           F == FQ(s_freelink)
           f == semdFree_h
           Q == PQ(p_list)
           I == InBuckets(L)
           A == {u \in SemKey : AProcq[u] # <<>>}
<1>1. /\ Listed(FNodes, FHead, Semd, s_freelink, F) /\ f \in FHead
      /\ Sems(Q, F[f], L, s_key, p_semAdd)
  BY Here DEF SemsOK
<1>2. /\ ToSet(F[f]) = Semd \ I /\ KeysDistinct(L, s_key) /\ \A d \in I : s_key[d] \in SemKey
      /\ I \subseteq Semd
  BY <1>1 DEF Sems, Unhashed, Hashed, InBuckets
<1>3. /\ F[f] \in Seq(Semd)
      /\ list_empty(s_freelink, f) <=> F[f] = <<>>
  <2> HIDE DEF F, f
  <2> QED
    BY <1>1, ListedFacts
<1>4. F[f] = <<>> <=> I = Semd
  <2> DEFINE q == F[f]
  <2>1. q \in Seq(Semd)
    BY <1>3
  <2> HIDE DEF q
  <2>2. q # <<>> => ToSet(q) # {}
    <3> HAVE q # <<>>
    <3>1. Head(q) \in ToSet(q)
      BY <2>1, TailQueue
    <3> QED
      BY <3>1
  <2>3. q = <<>> => ToSet(q) = {}
    BY EmptyQueue
  <2>4. ToSet(q) = Semd \ I
    BY <1>2 DEF q
  <2> HIDE DEF I
  <2> QED
    BY <1>2, <2>2, <2>3, <2>4 DEF q
<1>5. \A u \in SemKey : u \in A <=> find_sem(u) # NULL
  BY SemFound
<1>6. [d \in I |-> s_key[d]] \in Bijection(I, A)
  <2>1. \A d \in I : s_key[d] \in A
    <3> TAKE d \in I
    <3>1. find_sem(s_key[d]) = d /\ d # NULL
      BY <1>2, SemFound, Apartness
    <3> HIDE DEF A
    <3> QED
      BY <1>2, <1>5, <3>1
  <2>2. \A u \in A : \E d \in I : s_key[d] = u
    <3> TAKE u \in A
    <3>1. u \in SemKey /\ find_sem(u) # NULL
      BY <1>5
    <3> QED
      BY <3>1, SemFound
  <2> HIDE DEF A, I
  <2>3. \A d, e \in I : s_key[d] = s_key[e] => d = e
    BY <1>2 DEF KeysDistinct, I
  <2> QED
    BY <2>1, <2>2, <2>3 DEF Bijection, Injection, Surjection, IsInjective
<1>7. IsFiniteSet(Semd) /\ IsFiniteSet(I)
  BY <1>2, Apartness, FS_Subset
<1>8. Cardinality(A) = Cardinality(I)
  <2> HIDE DEF A, I
  <2>1. ExistsBijection(I, A)
    BY <1>6 DEF ExistsBijection
  <2> QED
    BY <1>7, <2>1, FS_Bijection
<1>9. Cardinality(I) < Cardinality(Semd) <=> I # Semd
  <2> HIDE DEF I
  <2>1. /\ Cardinality(I) <= Cardinality(Semd)
        /\ Cardinality(Semd) = Cardinality(I) => Semd = I
        /\ Cardinality(I) \in Nat /\ Cardinality(Semd) \in Nat
    BY <1>2, <1>7, FS_Subset, FS_CardinalityType
  <2> QED
    BY <2>1
<1>10. ACan(s) <=> s \in A \/ Cardinality(A) < Cardinality(Semd)
  BY DEF ACan
<1> HIDE DEF A, I, F, L, f
<1>11. ACan(s) <=> find_sem(s) # NULL \/ ~ list_empty(s_freelink, f)
  BY <1>3, <1>4, <1>5, <1>8, <1>9, <1>10
<1> QED
  BY <1>11 DEF f

(* Every queue is left before the process joins the queue of d.            *)
LEMMA Enqueued ==
  ASSUME NEW H, NEW m, NEW Q, Listed(PNodes, H, Pcb, m, Q), NEW p \in Pcb, NEW d \in H,
         p \notin ToSet(Q[d])
  PROVE  /\ Listed(PNodes, H, Pcb, insertedProcQ(list_delete_safe(m, p), d, p),
                   SetAt(TakenOut(H, Q, p), d, Append(Q[d], p)))
         /\ \A g \in H : g # d => SetAt(TakenOut(H, Q, p), d, Append(Q[d], p))[g] = RemoveFirst(Q[g], p)
         /\ \A g \in H : g # d /\ p \notin ToSet(Q[g]) =>
              SetAt(TakenOut(H, Q, p), d, Append(Q[d], p))[g] = Q[g]
         /\ SetAt(TakenOut(H, Q, p), d, Append(Q[d], p))[d] = Append(Q[d], p)
         /\ DOMAIN SetAt(TakenOut(H, Q, p), d, Append(Q[d], p)) = H
<1> DEFINE r == list_delete_safe(m, p)
           T == TakenOut(H, Q, p)
<1>1. /\ Listed(PNodes, H, Pcb, r, T) /\ TakenOut(H, T, p) = T
      /\ \A g \in H : T[g] = RemoveFirst(Q[g], p)
      /\ \A g \in H : p \notin ToSet(Q[g]) => T[g] = Q[g]
  BY ListedTaken
<1>2. DOMAIN T = H
  BY DEF TakenOut
<1>3. TakenOut(H, T, p)[d] = RemoveFirst(T[d], p)
  BY DEF TakenOut
<1> HIDE DEF r, T
<1>4. RemoveFirst(T[d], p) = Q[d] /\ T[d] = Q[d]
  BY <1>1, <1>3
<1>5. /\ Listed(PNodes, H, Pcb, list_add_tail(list_delete_safe(r, p), p, d),
                [TakenOut(H, T, p) EXCEPT ![d] = Append(RemoveFirst(T[d], p), p)])
      /\ list_add_tail(list_del(r, p), p, d) = list_add_tail(list_delete_safe(r, p), p, d)
  BY <1>1, ListedMove
<1>6. Listed(PNodes, H, Pcb, insertedProcQ(r, d, p), SetAt(T, d, Append(Q[d], p)))
  BY <1>1, <1>4, <1>5 DEF insertedProcQ, SetAt
<1> DEFINE M == SetAt(T, d, Append(Q[d], p))
<1>7. DOMAIN M = H /\ M[d] = Append(Q[d], p) /\ \A g \in H : g # d => M[g] = T[g]
  BY <1>2 DEF SetAt
<1> HIDE DEF M
<1>8. /\ \A g \in H : g # d => M[g] = RemoveFirst(Q[g], p)
      /\ \A g \in H : g # d /\ p \notin ToSet(Q[g]) => M[g] = Q[g]
  BY <1>1, <1>7
<1> QED
  BY <1>6, <1>7, <1>8 DEF M, T, r

(* A process is put in the queue of a semaphore, wherever it was.          *)
LEMMA QueueJoined ==
  ASSUME IInv, NEW p \in Pcb, UNCHANGED <<p_sib, p_parent>>, NEW s \in SemKey,
         NEW H, NEW M, Listed(PNodes, H, Pcb, p_list', M), pcbFree_h \in H, g_ready_queue \in H,
         M[pcbFree_h] = RemoveFirst(PQ(p_list)[pcbFree_h], p),
         M[g_ready_queue] = RemoveFirst(PQ(p_list)[g_ready_queue], p),
         NEW G, Listed(FNodes, FHead, Semd, s_freelink', G),
         NEW N, Strands(Buckets, Semd, s_link', N, {}),
         Sems(M, G[semdFree_h], N, s_key', p_semAdd'),
         Served(M, N, s_key') = SetAt(AProcq, s, Append(AProcq[s], p))
  PROVE  /\ IInv' /\ AFree' = RemoveFirst(AFree, p) /\ AReady' = RemoveFirst(AReady, p)
         /\ AChild' = AChild
         /\ AProcq' = [AProcq EXCEPT ![s] = Append(AProcq[s], p)]
<1> DEFINE Q == PQ(p_list)
           K == KnownIn(p_sib)
           C == SQ(p_sib)
           fr == Q[pcbFree_h]
<1>1. /\ Listed(PNodes, PHeads(p_list), Pcb, p_list, Q) /\ pcbFree_h \in PHeads(p_list)
      /\ Listed(SNodes, Childs(K), K, p_sib, C) /\ K \in SUBSET Pcb
      /\ Tree(fr, C, K, p_parent)
      /\ AFree = fr /\ AReady = Q[g_ready_queue] /\ AChild = KidsOf(K, C)
  BY Here DEF TreeOK
<1>2. p_sib' = p_sib /\ p_parent' = p_parent
  OBVIOUS
<1> HIDE DEF Q, K, C
<1>3. ToSet(M[pcbFree_h]) \subseteq ToSet(fr)
  <2> HIDE DEF pcbFree_h
  <2>1. fr \in Seq(Pcb) /\ IsInjective(fr)
    BY <1>1, ListedFacts
  <2> HIDE DEF fr
  <2>2. ToSet(RemoveFirst(fr, p)) = ToSet(fr) \ {p}
    BY <2>1, RemoveFirstQueue
  <2> QED
    BY <2>2 DEF fr, Q
<1> HIDE DEF fr
<1>4. Tree(M[pcbFree_h], C, K, p_parent)
  BY <1>1, <1>3, KeepTree
<1>5. /\ Listed(SNodes, Childs(K), K, p_sib', C) /\ Tree(M[pcbFree_h], C, K, p_parent')
  BY <1>1, <1>2, <1>4
<1>6. /\ IInv' /\ AFree' = M[pcbFree_h] /\ AReady' = M[g_ready_queue]
      /\ AProcq' = Served(M, N, s_key') /\ AChild' = KidsOf(K, C)
  BY <1>1, <1>5, Reached
<1> QED
  BY <1>1, <1>6 DEF SetAt, fr, Q

(* p leaves its queue and joins the one of d.                              *)
EnqueuedAt(H, Q, p, d, M) ==
  /\ DOMAIN M = H /\ M[d] = Append(Q[d], p)
  /\ \A g \in H : g # d => M[g] = RemoveFirst(Q[g], p)
  /\ \A g \in H : g # d /\ p \notin ToSet(Q[g]) => M[g] = Q[g]
EnqueuedQ(H, Q, p, d) == SetAt(TakenOut(H, Q, p), d, Append(Q[d], p))

(* The insertion does that.                                                *)
LEMMA EnqueuedMoves ==
  ASSUME NEW H, NEW m, NEW Q, Listed(PNodes, H, Pcb, m, Q), NEW p \in Pcb, NEW d, d \in H,
         p \notin ToSet(Q[d])
  PROVE  /\ Listed(PNodes, H, Pcb, insertedProcQ(list_delete_safe(m, p), d, p), EnqueuedQ(H, Q, p, d))
         /\ EnqueuedAt(H, Q, p, d, EnqueuedQ(H, Q, p, d))
<1>1. /\ Listed(PNodes, H, Pcb, insertedProcQ(list_delete_safe(m, p), d, p),
                   SetAt(TakenOut(H, Q, p), d, Append(Q[d], p)))
      /\ \A g \in H : g # d => SetAt(TakenOut(H, Q, p), d, Append(Q[d], p))[g] = RemoveFirst(Q[g], p)
      /\ \A g \in H : g # d /\ p \notin ToSet(Q[g]) =>
           SetAt(TakenOut(H, Q, p), d, Append(Q[d], p))[g] = Q[g]
      /\ SetAt(TakenOut(H, Q, p), d, Append(Q[d], p))[d] = Append(Q[d], p)
      /\ DOMAIN SetAt(TakenOut(H, Q, p), d, Append(Q[d], p)) = H
  BY Enqueued
<1> QED
  BY <1>1 DEF EnqueuedAt, EnqueuedQ

(* An empty queue for d.                                                   *)
Opened(H, Q, d) == [g \in H \cup {d} |-> IF g = d THEN <<>> ELSE Q[g]]

(* INIT_LIST_HEAD makes the queue of a free descriptor.                    *)
LEMMA OpenedListed ==
  ASSUME NEW H, NEW m, NEW Q, Listed(PNodes, H, Pcb, m, Q),
         NEW d, d \in PNodes, d \notin Pcb, d \in H => Q[d] = <<>>
  PROVE  Listed(PNodes, H \cup {d}, Pcb, INIT_LIST_HEAD(m, d), Opened(H, Q, d))
<1>1. d \in PNodes \ Pcb
  OBVIOUS
<1>2. Listed(PNodes, H \cup {d}, Pcb, INIT_LIST_HEAD(m, d),
               [g \in H \cup {d} |-> IF g = d THEN <<>> ELSE Q[g]])
  BY <1>1, ListedInit
<1> QED
  BY <1>2 DEF Opened

(* The semaphore has a descriptor.                                         *)
LEMMA JoinsOld ==
  ASSUME IInv, NEW p \in Pcb, p_semAdd[p] = NULL, NEW s \in SemKey, find_sem(s) # NULL,
         p_list' = insertedProcQ(list_delete_safe(p_list, p), find_sem(s), p),
         p_semAdd' = [p_semAdd EXCEPT ![p] = s],
         UNCHANGED <<semLists, p_sib, p_parent>>
  PROVE  /\ IInv' /\ AFree' = RemoveFirst(AFree, p) /\ AReady' = RemoveFirst(AReady, p)
         /\ AChild' = AChild
         /\ AProcq' = [AProcq EXCEPT ![s] = Append(AProcq[s], p)]
<1> DEFINE H == PHeads(p_list)
           Q == PQ(p_list)
           F == FQ(s_freelink)
           f == semdFree_h
           L == HQ(s_link)
           d == find_sem(s)
           M == EnqueuedQ(H, Q, p, d)
           b == [p_semAdd EXCEPT ![p] = s]
<1>1. /\ Listed(PNodes, H, Pcb, p_list, Q) /\ DOMAIN Q = H
      /\ pcbFree_h \in H /\ g_ready_queue \in H
      /\ pcbFree_h \notin Semd /\ g_ready_queue \notin Semd
      /\ Listed(FNodes, FHead, Semd, s_freelink, F)
      /\ Strands(Buckets, Semd, s_link, L, {})
      /\ Sems(Q, F[f], L, s_key, p_semAdd)
      /\ AProcq = Served(Q, L, s_key)
  BY Here, Apartness DEF SemsOK
<1>2. s_freelink' = s_freelink /\ s_link' = s_link /\ s_key' = s_key
  BY DEF semLists
<1>3. d \in InBuckets(L) /\ s_key[d] = s /\ AProcq[s] = Q[d]
  BY SemFound
<1>4. d \in H /\ d \in Semd /\ Q[d] \in Seq(Pcb)
  BY <1>3, SemSeen
<1>5. \A e \in H \cap Semd : p \notin ToSet(Q[e])
  BY UnblockedTaken
<1>6. p_list' = insertedProcQ(list_delete_safe(p_list, p), d, p)
  OBVIOUS
<1>7. Assigned(p_semAdd, b, p, s) /\ p_semAdd' = b
  <2>1. p_semAdd \in [Pcb -> SemKey \cup {NULL}]
    BY <1>1 DEF Sems, KeyTypes
  <2> HIDE DEF d
  <2> QED
    BY <2>1, Assigns
<1> HIDE DEF H, Q, F, f, L, d, b
<1>8. /\ Listed(PNodes, H, Pcb, insertedProcQ(list_delete_safe(p_list, p), d, p), M)
      /\ EnqueuedAt(H, Q, p, d, M)
  <2>1. p \notin ToSet(Q[d])
    BY <1>4, <1>5
  <2> QED
    BY <1>1, <1>4, <2>1, EnqueuedMoves
<1> HIDE DEF M
<1>9. /\ Listed(PNodes, H, Pcb, p_list', M)
      /\ M[pcbFree_h] = RemoveFirst(Q[pcbFree_h], p)
      /\ M[g_ready_queue] = RemoveFirst(Q[g_ready_queue], p)
      /\ QueueAt(Q, M, d, Append(Q[d], p))
      /\ DOMAIN M = DOMAIN Q
  BY <1>1, <1>4, <1>5, <1>6, <1>8 DEF QueueAt, EnqueuedAt
<1>10. Assigned(p_semAdd, b, p, s_key[d])
  BY <1>3, <1>7
<1>13. p_semAdd[p] = NULL /\ Sems(Q, F[f], L, s_key, p_semAdd)
  BY <1>1
<1>11. /\ Sems(M, F[f], L, s_key, b)
       /\ Served(M, L, s_key) = SetAt(Served(Q, L, s_key), s_key[d], Append(Q[d], p))
  <2>1. SemMoved(Q, F[f], L, s_key, p_semAdd, M, F[f], L, s_key, b, s_key[d], Append(Q[d], p))
    BY <1>3, <1>4, <1>9, <1>10, <1>13, JoinSem
  <2> QED
    BY <1>13, <2>1 DEF SemMoved
<1>12. /\ Sems(M, F[semdFree_h], L, s_key', p_semAdd')
       /\ Served(M, L, s_key') = SetAt(AProcq, s, Append(AProcq[s], p))
       /\ Listed(FNodes, FHead, Semd, s_freelink', F)
       /\ Strands(Buckets, Semd, s_link', L, {})
  BY <1>1, <1>2, <1>3, <1>7, <1>11 DEF f
<1> QED
  BY <1>1, <1>9, <1>12, QueueJoined DEF Q

(* It gets one.                                                            *)
LEMMA JoinsNew ==
  ASSUME IInv, NEW p \in Pcb, p_semAdd[p] = NULL, NEW s \in SemKey, find_sem(s) = NULL,
         ~ list_empty(s_freelink, semdFree_h), NEW d, d = s_freelink.next[semdFree_h],
         alloc_semd(d, s),
         p_list' = insertedProcQ(list_delete_safe(INIT_LIST_HEAD(p_list, d), p), d, p),
         p_semAdd' = [p_semAdd EXCEPT ![p] = s],
         UNCHANGED <<p_sib, p_parent>>
  PROVE  /\ IInv' /\ AFree' = RemoveFirst(AFree, p) /\ AReady' = RemoveFirst(AReady, p)
         /\ AChild' = AChild
         /\ AProcq' = [AProcq EXCEPT ![s] = Append(AProcq[s], p)]
<1> DEFINE H == PHeads(p_list)
           Q == PQ(p_list)
           F == FQ(s_freelink)
           f == semdFree_h
           L == HQ(s_link)
           J == H \cup {d}
           R == Opened(H, Q, d)
           m == INIT_LIST_HEAD(p_list, d)
           M == EnqueuedQ(J, R, p, d)
           b == [p_semAdd EXCEPT ![p] = s]
           kez == [s_key EXCEPT ![d] = s]
           h == Hash(s)
           N == [L EXCEPT ![h] = <<d>> \o L[h]]
           G == SetAt(F, f, Tail(F[f]))
<1>1. /\ Listed(PNodes, H, Pcb, p_list, Q) /\ DOMAIN Q = H
      /\ pcbFree_h \in H /\ g_ready_queue \in H
      /\ pcbFree_h \notin Semd /\ g_ready_queue \notin Semd
      /\ Listed(FNodes, FHead, Semd, s_freelink, F) /\ f \in FHead
      /\ Strands(Buckets, Semd, s_link, L, {}) /\ BucketsOK(L) /\ HOK(s_link)
      /\ Sems(Q, F[f], L, s_key, p_semAdd)
      /\ AProcq = Served(Q, L, s_key)
  BY Here, Apartness, HBuckets DEF SemsOK
<1>2. AProcq[s] = <<>> /\ ~ Owned(L, s_key, s)
  BY SemFound
<1>3. /\ s_freelink' = list_delete_safe(s_freelink, d)
      /\ s_link' = hlist_add_head(INIT_HLIST_NODE(s_link, d), d, h)
      /\ s_key' = kez
  BY DEF alloc_semd, hash_add, Hash
<1>4. p_list' = insertedProcQ(list_delete_safe(m, p), d, p)
  OBVIOUS
<1>5. /\ p_semAdd \in [Pcb -> SemKey \cup {NULL}] /\ s_key \in [Semd -> SemKey \cup {NULL}]
      /\ ToSet(F[f]) = Semd \ InBuckets(L)
      /\ \A e \in (H \cap Semd) \ InBuckets(L) : Q[e] = <<>>
  BY <1>1 DEF Sems, KeyTypes, Unhashed
<1>6. \A e \in H \cap Semd : p \notin ToSet(Q[e])
  BY UnblockedTaken
<1>7. d = s_freelink.next[f] /\ ~ list_empty(s_freelink, f)
  OBVIOUS
<1>8. h \in Buckets
  BY HashInBuckets DEF Hash
<1> HIDE DEF H, Q, F, f, L, h
<1>9. F[f] # <<>> /\ F[f] \in Seq(Semd) /\ IsInjective(F[f])
  BY <1>1, <1>7, ListedFacts
<1>10. d = Head(F[f]) /\ d \in ToSet(F[f])
  BY <1>1, <1>7, <1>9, ListedPop
<1>11. d \in Semd /\ d \notin InBuckets(L) /\ d \notin Pcb /\ d \in PNodes
  BY <1>5, <1>10, Apartness
<1>12. Listed(FNodes, FHead, Semd, s_freelink', G)
  <2>1. Listed(FNodes, FHead, Semd, list_delete_safe(s_freelink, Head(F[f])), G)
    BY <1>1, <1>9, ListedPopped
  <2> QED
    BY <2>1, <1>3, <1>10
<1>13. ToSet(G[f]) = ToSet(F[f]) \ {d}
  <2> DEFINE q == F[f]
  <2>1. q \in Seq(Semd) /\ q # <<>> /\ IsInjective(q) /\ d = Head(q)
    BY <1>9, <1>10
  <2> HIDE DEF q
  <2>2. ToSet(q) = ToSet(Tail(q)) \cup {Head(q)} /\ Head(q) \notin ToSet(Tail(q))
    BY <2>1, TailQueue
  <2>3. F \in [FHead -> Seq(Semd)]
    BY <1>1 DEF Listed
  <2>4. G[f] = Tail(q)
    BY <2>3, <1>1 DEF SetAt, q
  <2> QED
    BY <2>1, <2>2, <2>4 DEF q
<1>14. Strands(Buckets, Semd, s_link', N, {})
  <2>1. HSets(Buckets, Semd)
    BY Buckets_Semd
  <2>2. ~ InSome(L, Buckets, d)
    <3>1. \A e \in Semd : InSome(L, Buckets, e) <=> \E g \in Buckets : e \in ToSet(L[g])
      BY <1>1, <2>1, HHashed
    <3> QED
      BY <3>1, <1>11 DEF InBuckets
  <2> HIDE DEF N
  <2>3. Strands(Buckets, Semd, hlist_add_head(INIT_HLIST_NODE(s_link, d), d, h), N, {})
    BY <1>1, <1>8, <1>11, <2>1, <2>2, HashAdd DEF N
  <2> QED
    BY <2>3, <1>3
<1>15. N[h] = <<d>> \o L[h] /\ \A c \in Buckets : c # h => N[c] = L[c]
  BY <1>1, <1>8 DEF BucketsOK
<1>16. /\ kez \in [Semd -> SemKey \cup {NULL}] /\ kez[d] = s
       /\ \A e \in Semd : e # d => kez[e] = s_key[e]
  BY <1>5, <1>11
<1>17. Assigned(p_semAdd, b, p, s) /\ p_semAdd' = b
  BY <1>5, Assigns
<1> HIDE DEF b, kez, N, G, m
<1>18. Listed(PNodes, J, Pcb, m, R)
  <2>1. d \in PNodes /\ d \notin Pcb
    BY <1>11
  <2>2. d \in H => Q[d] = <<>>
    BY <1>5, <1>11
  <2>3. Listed(PNodes, H \cup {d}, Pcb, INIT_LIST_HEAD(p_list, d), Opened(H, Q, d))
    BY <1>1, <2>1, <2>2, OpenedListed
  <2> QED
    BY <2>3 DEF m
<1>19. /\ DOMAIN R = J /\ R[d] = <<>> /\ \A g \in H : g # d => R[g] = Q[g]
       /\ d \in J /\ H \subseteq J
  BY DEF Opened
<1>20. p \notin ToSet(R[d])
  BY <1>19, EmptyQueue
<1> HIDE DEF R, J
<1>21. /\ Listed(PNodes, J, Pcb, insertedProcQ(list_delete_safe(m, p), d, p), M)
       /\ EnqueuedAt(J, R, p, d, M)
  <2>1. d \in J
    BY <1>19
  <2> QED
    BY <1>18, <1>20, <2>1, EnqueuedMoves
<1> HIDE DEF M
<1>22. /\ Listed(PNodes, J, Pcb, p_list', M)
       /\ pcbFree_h \in J /\ g_ready_queue \in J
       /\ DOMAIN M = DOMAIN Q \cup {d}
  BY <1>1, <1>4, <1>19, <1>21 DEF J, EnqueuedAt
<1>25. /\ M[pcbFree_h] = RemoveFirst(Q[pcbFree_h], p)
       /\ M[g_ready_queue] = RemoveFirst(Q[g_ready_queue], p)
  BY <1>1, <1>11, <1>19, <1>21 DEF EnqueuedAt
<1>26. QueueAt(Q, M, d, Append(<<>>, p))
  <2>1. M[d] = Append(<<>>, p)
    BY <1>19, <1>21 DEF EnqueuedAt
  <2>2. ASSUME NEW e \in DOMAIN Q \cap Semd, e # d PROVE M[e] = Q[e]
    <3>1. e \in H /\ e \in J /\ R[e] = Q[e] /\ p \notin ToSet(Q[e])
      BY <1>1, <1>6, <1>19, <2>2
    <3> QED
      BY <1>21, <2>2, <3>1 DEF EnqueuedAt
  <2> QED
    BY <2>1, <2>2 DEF QueueAt
<1>27. PushedAt(L, N, Hash(s), d) /\ KeyedAt(s_key, kez, d, s)
  BY <1>15, <1>16 DEF PushedAt, KeyedAt, h
<1>28. /\ Sems(Q, F[f], L, s_key, p_semAdd) /\ BucketsOK(L) /\ ~ Owned(L, s_key, s)
       /\ p_semAdd[p] = NULL /\ d \in Semd /\ d \notin InBuckets(L)
       /\ ToSet(G[f]) = ToSet(F[f]) \ {d} /\ Assigned(p_semAdd, b, p, s)
       /\ DOMAIN M = DOMAIN Q \cup {d}
  BY <1>1, <1>2, <1>11, <1>13, <1>17, <1>22
<1>23. /\ Sems(M, G[f], N, kez, b)
       /\ Served(M, N, kez) = SetAt(Served(Q, L, s_key), s, Append(<<>>, p))
  <2>1. SemMoved(Q, F[f], L, s_key, p_semAdd, M, G[f], N, kez, b, s, Append(<<>>, p))
    BY <1>26, <1>27, <1>28, NewSem
  <2> QED
    BY <1>28, <2>1 DEF SemMoved
<1>24. /\ Sems(M, G[semdFree_h], N, s_key', p_semAdd')
       /\ Served(M, N, s_key') = SetAt(AProcq, s, Append(AProcq[s], p))
  BY <1>1, <1>2, <1>3, <1>17, <1>23 DEF f
<1> QED
  BY <1>12, <1>14, <1>22, <1>24, <1>25, QueueJoined DEF Q

(* insertBlocked: with the descriptor of the semaphore, a free one, or     *)
(* none.                                                                   *)
LEMMA StepInsertBlocked ==
  ASSUME IInv, NEW p \in Pcb, NEW s \in SemKey, abstract!MayBlock(p), insertBlocked(s, p)
  PROVE  IInv' /\ abstract!insertBlocked(s, p)
<1>1. p_semAdd[p] = NULL
  BY DEF abstract!MayBlock, abstract!Blocked
<1>2. p_sib' = p_sib /\ p_parent' = p_parent
  BY DEF insertBlocked
<1>3. CASE find_sem(s) = NULL /\ list_empty(s_freelink, semdFree_h)
  <2>1. Returns("insertBlocked", <<s, p>>, TRUE) /\ UNCHANGED <<procLists, semLists, p_semAdd>>
    BY <1>2, <1>3 DEF insertBlocked, procLists
  <2>2. /\ IInv' /\ AFree' = AFree /\ AReady' = AReady /\ AProcq' = AProcq /\ AChild' = AChild
        /\ p_semAdd' = p_semAdd
    BY <2>1, NothingMoves
  <2>3. ~ ACan(s)
    BY <1>3, DescriptorsLeft
  <2> QED
    BY <1>2, <2>1, <2>2, <2>3, AbstractInsertNone
<1>4. CASE ~ (find_sem(s) = NULL /\ list_empty(s_freelink, semdFree_h))
  <2>1. ACan(s)
    BY <1>4, DescriptorsLeft
  <2>2. Returns("insertBlocked", <<s, p>>, FALSE) /\ p_semAdd' = [p_semAdd EXCEPT ![p] = s]
    BY <1>4 DEF insertBlocked
  <2>3. /\ IInv' /\ AFree' = RemoveFirst(AFree, p) /\ AReady' = RemoveFirst(AReady, p)
        /\ AChild' = AChild
        /\ AProcq' = [AProcq EXCEPT ![s] = Append(AProcq[s], p)]
    <3>1. CASE find_sem(s) # NULL
      <4>1. /\ p_list' = insertedProcQ(list_delete_safe(p_list, p), find_sem(s), p)
            /\ UNCHANGED <<semLists, p_sib, p_parent>>
        BY <1>2, <3>1 DEF insertBlocked
      <4> QED
        BY <1>1, <2>2, <3>1, <4>1, JoinsOld
    <3>2. CASE find_sem(s) = NULL
      <4> DEFINE d == s_freelink.next[semdFree_h]
      <4>1. /\ alloc_semd(d, s)
            /\ p_list' = insertedProcQ(list_delete_safe(INIT_LIST_HEAD(p_list, d), p), d, p)
        BY <1>4, <3>2 DEF insertBlocked
      <4>2. ~ list_empty(s_freelink, semdFree_h) /\ UNCHANGED <<p_sib, p_parent>>
        BY <1>2, <1>4, <3>2
      <4> QED
        BY <1>1, <2>2, <3>2, <4>1, <4>2, JoinsNew
    <3> QED
      BY <3>1, <3>2
  <2> QED
    BY <1>2, <2>1, <2>2, <2>3, AbstractInsertBlocked
<1> QED
  BY <1>3, <1>4

-----------------------------------------------------------------------------
(* Every step *)

(* The calls whose process the nucleus names.                              *)
LEMMA StepOfProcess ==
  ASSUME IInv, NEW p \in Pcb, Known(p),
         \/ abstract!MayFree(p) /\ freePcb(p)
         \/ abstract!MayReady(p) /\ insertProcQ(g_ready_queue, p)
         \/ outProcQ(g_ready_queue, p)
         \/ \E q \in Pcb : MayAdopt(q, p) /\ insertChild(q, p)
         \/ removeChild(p)
         \/ outChild(p)
         \/ outBlocked(p)
         \/ \E s \in SemKey : abstract!MayBlock(p) /\ insertBlocked(s, p)
  PROVE  IInv' /\ abstract!Next
<1>1. p \in KnownIn(p_sib)
  BY DEF Known, KnownIn
<1>2. CASE abstract!MayFree(p) /\ freePcb(p)
  BY <1>2, StepFreePcb DEF abstract!Next
<1>3. CASE abstract!MayReady(p) /\ insertProcQ(g_ready_queue, p)
  BY <1>3, StepInsertProcQ DEF abstract!Next
<1>4. CASE outProcQ(g_ready_queue, p)
  BY <1>4, StepOutProcQ DEF abstract!Next
<1>5. CASE \E q \in Pcb : MayAdopt(q, p) /\ insertChild(q, p)
  <2>1. PICK q \in Pcb : MayAdopt(q, p) /\ insertChild(q, p)
    BY <1>5
  <2>2. q \in KnownIn(p_sib) /\ abstract!MayAdopt(q, p)
    BY <2>1 DEF MayAdopt, Known, KnownIn
  <2>3. IInv' /\ abstract!insertChild(q, p)
    BY <1>1, <2>1, <2>2, StepInsertChild
  <2> QED
    BY <2>3 DEF abstract!Next
<1>6. CASE removeChild(p)
  BY <1>1, <1>6, StepRemoveChild DEF abstract!Next
<1>7. CASE outChild(p)
  BY <1>1, <1>7, StepOutChild DEF abstract!Next
<1>8. CASE outBlocked(p)
  BY <1>8, StepOutBlocked DEF abstract!Next
<1>9. CASE \E s \in SemKey : abstract!MayBlock(p) /\ insertBlocked(s, p)
  <2>1. PICK s \in SemKey : abstract!MayBlock(p) /\ insertBlocked(s, p)
    BY <1>9
  <2>2. IInv' /\ abstract!insertBlocked(s, p)
    BY <2>1, StepInsertBlocked
  <2> QED
    BY <2>2 DEF abstract!Next
<1> QED
  BY <1>2, <1>3, <1>4, <1>5, <1>6, <1>7, <1>8, <1>9

(* Every call keeps the invariant, and is the call of Queues it stands for.*)
LEMMA NextStep ==
  ASSUME IInv, Next
  PROVE  IInv' /\ abstract!Next
<1>1. CASE allocPcb
  BY <1>1, StepAllocPcb DEF abstract!Next
<1>2. CASE removeProcQ(g_ready_queue)
  BY <1>2, StepRemoveProcQ DEF abstract!Next
<1>3. CASE headProcQ(g_ready_queue)
  BY <1>3, StepHeadProcQ DEF abstract!Next
<1>4. CASE \E s \in SemKey : removeBlocked(s)
  BY <1>4, StepRemoveBlocked DEF abstract!Next
<1>5. CASE \E s \in SemKey : headBlocked(s)
  BY <1>5, StepHeadBlocked DEF abstract!Next
<1>6. CASE \E p \in {q \in Pcb : Known(q)} :
             \/ abstract!MayFree(p) /\ freePcb(p)
             \/ abstract!MayReady(p) /\ insertProcQ(g_ready_queue, p)
             \/ outProcQ(g_ready_queue, p)
             \/ \E q \in Pcb : MayAdopt(q, p) /\ insertChild(q, p)
             \/ removeChild(p)
             \/ outChild(p)
             \/ outBlocked(p)
             \/ \E s \in SemKey : abstract!MayBlock(p) /\ insertBlocked(s, p)
  BY <1>6, StepOfProcess
<1> QED
  BY <1>1, <1>2, <1>3, <1>4, <1>5, <1>6 DEF Next

(* What is not a step changes nothing.                                     *)
LEMMA Stutter ==
  ASSUME IInv, UNCHANGED vars
  PROVE  IInv' /\ UNCHANGED abstract!vars
<1>1. UNCHANGED <<procLists, semLists, p_semAdd>> /\ result' = result
  BY DEF vars
<1>2. /\ IInv' /\ AFree' = AFree /\ AReady' = AReady /\ AProcq' = AProcq /\ AChild' = AChild
      /\ p_semAdd' = p_semAdd /\ p_parent' = p_parent
  BY <1>1, NothingMoves
<1> QED
  BY <1>1, <1>2 DEF abstract!vars, AFree, AReady, AProcq, AChild

-----------------------------------------------------------------------------
(* What the invariant says of the pointers *)

(* No link is null and no PCB is in two lists.                             *)
LEMMA LinksFollow ==
  ASSUME IInv
  PROVE  LinksSound
<1> DEFINE H == PHeads(p_list)
           Q == PQ(p_list)
           A == {pcbFree_h, g_ready_queue} \cup Semd
<1>1. Listed(PNodes, H, Pcb, p_list, Q)
  BY Here
<1>2. \A h \in A : p_list.next[h] # NULL <=> h \in H
  <2>1. \A y \in PNodes : p_list.next[y] # NULL <=> y \in H \cup Pcb
    <3> HIDE DEF H, Q
    <3> QED
      BY <1>1, ListedHeads
  <2>2. A \subseteq PNodes /\ A \cap Pcb = {}
    BY Apartness
  <2> HIDE DEF A, H
  <2> QED
    BY <2>1, <2>2
<1>3. H \subseteq A
  BY DEF PHeads
<1>4. \A h \in H : list_for_each(p_list, h) = Q[h]
  BY DEF PQ
<1>5. \A g, h \in H : g # h => ToSet(Q[g]) \cap ToSet(Q[h]) = {}
  BY <1>1 DEF Listed
<1> HIDE DEF A, H, Q
<1> SUFFICES ASSUME NEW p \in Pcb
             PROVE  /\ p_list.next[p] # NULL /\ p_list.prev[p_list.next[p]] = p
                    /\ p_list.next[p] # p =>
                         Cardinality({h \in A : p_list.next[h] # NULL
                                                /\ p \in ToSet(list_for_each(p_list, h))}) = 1
  BY DEF LinksSound, A
<1>6. /\ p_list.next[p] = p <=> OffAll(H, Q, p)
      /\ p_list.next[p] \in PNodes /\ p_list.prev[p_list.next[p]] = p
  BY <1>1, ListedSelf
<1>7. p_list.next[p] # NULL
  BY <1>6, Apartness
<1>8. ASSUME p_list.next[p] # p
      PROVE  Cardinality({h \in A : p_list.next[h] # NULL
                                    /\ p \in ToSet(list_for_each(p_list, h))}) = 1
  <2>1. PICK g \in H : p \in ToSet(Q[g])
    BY <1>6, <1>8 DEF OffAll
  <2> DEFINE In == {h \in A : p_list.next[h] # NULL /\ p \in ToSet(list_for_each(p_list, h))}
  <2>2. In = {g}
    BY <2>1, <1>2, <1>3, <1>4, <1>5
  <2> HIDE DEF In
  <2>3. Cardinality(In) = 1
    BY <2>2, FS_Singleton
  <2> QED
    BY <2>3 DEF In
<1> QED
  BY <1>6, <1>7, <1>8

(* Descriptors are free or serve a key.                                    *)
LEMMA DescriptorsFollow ==
  ASSUME IInv
  PROVE  DescriptorsAccounted
<1> DEFINE L == HQ(s_link)
           I == InBuckets(L)
           free == ToSet(list_for_each(s_freelink, semdFree_h))
           hashed == {d \in Semd : ~ hlist_unhashed(s_link, d)}
<1>1. /\ Sems(PQ(p_list), FQ(s_freelink)[semdFree_h], L, s_key, p_semAdd)
      /\ HOK(s_link)
  BY Here DEF SemsOK
<1>2. /\ \A b \in Buckets : hlist_for_each(s_link, b) = L[b]
      /\ \A d \in Semd : ~ hlist_unhashed(s_link, d) <=> d \in I
      /\ I \subseteq Semd
  BY <1>1, HBuckets
<1>3. hashed = I
  <2> HIDE DEF I
  <2> QED
    BY <1>2
<1>4. free = Semd \ I
  <2>1. FQ(s_freelink)[semdFree_h] = list_for_each(s_freelink, semdFree_h)
    BY DEF FQ, FHead
  <2> QED
    BY <1>1, <2>1 DEF Sems, Unhashed
<1>5. \A d \in I : s_key[d] \in SemKey /\ d \in ToSet(L[Hash(s_key[d])])
  BY <1>1 DEF Sems, Hashed
<1>6. \A d \in I : d \in ToSet(hlist_for_each(s_link, hash_32(s_key[d], HASH_BITS)))
  <2> TAKE d \in I
  <2> DEFINE b == hash_32(s_key[d], HASH_BITS)
  <2>1. b \in Buckets
    BY <1>5, HashInBuckets
  <2>2. d \in ToSet(L[b])
    BY <1>5 DEF Hash
  <2> HIDE DEF b
  <2>3. hlist_for_each(s_link, b) = L[b]
    BY <2>1, <1>2
  <2> QED
    BY <2>2, <2>3 DEF b
<1>7. \A d \in I : ~ list_empty(p_list, d)
  BY SemSeen DEF emptyProcQ
<1>8. \A d, e \in I : e # d => s_key[e] # s_key[d]
  BY <1>1 DEF Sems, KeysDistinct
<1> HIDE DEF I, free, hashed
<1>9. /\ free = Semd \ hashed
      /\ \A d \in hashed :
           /\ d \in ToSet(hlist_for_each(s_link, hash_32(s_key[d], HASH_BITS)))
           /\ ~ list_empty(p_list, d)
           /\ \A e \in hashed \ {d} : s_key[e] # s_key[d]
  BY <1>3, <1>4, <1>6, <1>7, <1>8
<1> QED
  BY <1>9 DEF DescriptorsAccounted, free, hashed

-----------------------------------------------------------------------------
(* The start *)

(* An injective sequence of all PCBs is one of the orders of the table.    *)
LEMMA WholeTable ==
  ASSUME NEW S, IsFiniteSet(S), NEW q \in Seq(S), IsInjective(q), ToSet(q) = S
  PROVE  q \in [1 .. Cardinality(S) -> S]
<1> DEFINE n == Len(q)
           D == 1 .. n
<1>1. n \in Nat /\ q \in [D -> S]
  OBVIOUS
<1>2. IsFiniteSet(D) /\ Cardinality(D) = n
  <2>1. 1 \in Int /\ n \in Int
    BY <1>1
  <2> HIDE DEF n
  <2>2. IsFiniteSet(1 .. n) /\ Cardinality(1 .. n) = IF 1 > n THEN 0 ELSE n - 1 + 1
    BY <2>1, FS_Interval
  <2> QED
    BY <1>1, <2>2
<1>3. \A x \in S : \E i \in D : q[i] = x
  BY <1>1 DEF ToSet
<1> HIDE DEF D
<1>4. q \in Bijection(D, S)
  BY <1>1, <1>3 DEF Bijection, Injection, Surjection, IsInjective
<1>5. ExistsBijection(D, S)
  BY <1>4 DEF ExistsBijection
<1>6. Cardinality(S) = n
  BY <1>2, <1>5, FS_Bijection
<1> QED
  BY <1>1, <1>6 DEF D

(* A list head is initialised.                                             *)
LEMMA OpenedAny ==
  ASSUME NEW N, NEW H, NEW m, NEW Q, Listed(N, H, {}, m, Q), NEW d, d \in N,
         d \notin H
  PROVE  Listed(N, H \cup {d}, {}, INIT_LIST_HEAD(m, d), Opened(H, Q, d))
<1>1. d \in N \ {}
  OBVIOUS
<1>2. Listed(N, H \cup {d}, {}, INIT_LIST_HEAD(m, d),
               [g \in H \cup {d} |-> IF g = d THEN <<>> ELSE Q[g]])
  BY <1>1, ListedInit
<1> QED
  BY <1>2 DEF Opened

(* The entries of a table are in the list they are added to, one by one.   *)
LEMMA FreePcbs ==
  ASSUME NEW table \in Tables(Pcb)
  PROVE  \E M : /\ Listed(PNodes, {pcbFree_h, g_ready_queue}, Pcb, initPcbs(table), M)
                /\ ToSet(M[pcbFree_h]) = Pcb /\ M[g_ready_queue] = <<>>
<1> DEFINE m == [next |-> Zero(PNodes), prev |-> Zero(PNodes)]
           f == pcbFree_h
           r == g_ready_queue
           n == INIT_LIST_HEAD(m, f)
           o == INIT_LIST_HEAD(n, r)
           A == Opened({}, NoLists, f)
           B == Opened({} \cup {f}, A, r)
           H == {f, r}
<1>1. f \in PNodes /\ r \in PNodes /\ f # r /\ f \notin Pcb /\ r \notin Pcb
      /\ IsFiniteSet(PNodes) /\ NULL \notin PNodes /\ Pcb \subseteq PNodes /\ IsFiniteSet(Pcb)
  BY Apartness
<1>2. initPcbs(table) = AddAll(o, table, f)
  BY DEF initPcbs, PNodes
<1>3. Covers(table, Pcb)
  BY <1>1, TablesCover
<1>4. Listed(PNodes, {}, {}, m, NoLists)
  BY <1>1, StaticListed
<1> HIDE DEF m, f, r
<1>5. Listed(PNodes, {} \cup {f}, {}, n, A)
  BY <1>1, <1>4, OpenedAny
<1> HIDE DEF n
<1>6. Listed(PNodes, {} \cup {f} \cup {r}, {}, o, B)
  BY <1>1, <1>5, OpenedAny
<1> HIDE DEF o
<1>7. B[r] = <<>>
  BY DEF Opened
<1>8. {} \cup {f} \cup {r} = H
  OBVIOUS
<1>9. Listed(PNodes, H, {}, o, B) /\ f \in H /\ r \in H /\ Pcb \in SUBSET (PNodes \ H)
  BY <1>1, <1>6, <1>8
<1> HIDE DEF B, H
<1>10. \E M : /\ Listed(PNodes, H, Pcb, AddAll(o, table, f), M) /\ ToSet(M[f]) = Pcb
              /\ \A g \in H : g # f => M[g] = B[g]
  BY <1>3, <1>9, AddAllListed
<1>11. PICK M : /\ Listed(PNodes, H, Pcb, AddAll(o, table, f), M) /\ ToSet(M[f]) = Pcb
                /\ \A g \in H : g # f => M[g] = B[g]
  BY <1>10
<1>12. M[r] = <<>>
  BY <1>1, <1>7, <1>9, <1>11
<1> QED
  BY <1>2, <1>11, <1>12 DEF f, r, H

(* initASH leaves all descriptors in the free list.                        *)
LEMMA FreeSemds ==
  ASSUME NEW table \in Tables(Semd)
  PROVE  \E M : /\ Listed(FNodes, FHead, Semd, initASH(table), M)
                /\ ToSet(M[semdFree_h]) = Semd
<1> DEFINE m == [next |-> Zero(FNodes), prev |-> Zero(FNodes)]
           f == semdFree_h
           n == INIT_LIST_HEAD(m, f)
           A == Opened({}, NoLists, f)
           H == FHead
<1>1. f \in FNodes /\ f \notin Semd /\ H = {f}
      /\ IsFiniteSet(FNodes) /\ NULL \notin FNodes /\ Semd \subseteq FNodes /\ IsFiniteSet(Semd)
  BY Apartness
<1>2. initASH(table) = AddAll(n, table, f)
  BY DEF initASH, FNodes
<1>3. Covers(table, Semd)
  BY <1>1, TablesCover
<1>4. Listed(FNodes, {}, {}, m, NoLists)
  BY <1>1, StaticListed
<1> HIDE DEF m, f, H
<1>5. Listed(FNodes, {} \cup {f}, {}, n, A)
  BY <1>1, <1>4, OpenedAny
<1> HIDE DEF n, A
<1>6. Listed(FNodes, H, {}, n, A) /\ f \in H /\ Semd \in SUBSET (FNodes \ H)
  BY <1>1, <1>5
<1>7. \E M : /\ Listed(FNodes, H, Semd, AddAll(n, table, f), M) /\ ToSet(M[f]) = Semd
             /\ \A g \in H : g # f => M[g] = A[g]
  BY SMTT(30), <1>3, <1>6, AddAllListed
<1> QED
  BY <1>2, <1>7 DEF f, H

(* Static memory has empty buckets.                                        *)
NoBuckets == [b \in Buckets |-> <<>>]

(* The hash table starts with empty buckets.                               *)
LEMMA EmptyBuckets ==
  /\ Strands(Buckets, Semd, [next |-> Zero(Buckets \cup Semd), pprev |-> Zero(Semd)], NoBuckets, {})
  /\ InBuckets(NoBuckets) = {}
<1> DEFINE mem == [next |-> Zero(Buckets \cup Semd), pprev |-> Zero(Semd)]
<1>1. \A b \in Buckets : NoBuckets[b] = <<>> /\ Len(NoBuckets[b]) = 0 /\ ToSet(NoBuckets[b]) = {}
  BY EmptyQueue DEF NoBuckets
<1>2. NoBuckets \in [Buckets -> Seq(Semd)]
  BY EmptyQueue DEF NoBuckets
<1>3. /\ mem \in HMem(Buckets, Semd)
      /\ \A x \in Buckets \cup Semd : mem.next[x] = NULL
      /\ \A x \in Semd : mem.pprev[x] = NULL
  BY DEF HMem, HNode, Zero
<1> HIDE DEF mem
<1>4. Apart(NoBuckets, Buckets) /\ \A x \in Semd : ~ InSome(NoBuckets, Buckets, x)
  <2> DEFINE L == NoBuckets
  <2>1. \A b \in Buckets : 1 .. Len(L[b]) = {}
    BY <1>1
  <2> HIDE DEF L
  <2> QED
    BY <2>1 DEF Apart, InSome, L
<1>5. \A b \in Buckets : Strand(mem, b, NoBuckets[b])
  <2> TAKE b \in Buckets
  <2> DEFINE s == NoBuckets[b]
  <2>1. Len(s) = 0 /\ b \in Buckets
    BY <1>1
  <2> HIDE DEF s
  <2>2. HAt(b, s, 0) = b /\ HAt(b, s, 0 + 1) = NULL
    BY <2>1 DEF HAt
  <2>3. \A i \in 0 .. Len(s) : mem.next[HAt(b, s, i)] = HAt(b, s, i + 1)
    <3> TAKE i \in 0 .. Len(s)
    <3>1. i = 0
      BY <2>1
    <3> QED
      BY <2>2, <3>1, <1>3
  <2>4. 1 .. Len(s) = {}
    BY <2>1
  <2> QED
    BY <2>3, <2>4 DEF Strand, s
<1>6. \A x \in Semd : Alone(mem, {}, x)
  BY <1>3 DEF Alone
<1>7. InBuckets(NoBuckets) = {}
  BY <1>1 DEF InBuckets
<1>8. Strands(Buckets, Semd, mem, NoBuckets, {})
  BY <1>2, <1>3, <1>4, <1>5, <1>6 DEF Strands
<1> QED
  BY <1>7, <1>8 DEF mem

(* The invariant and the view, of lists known otherwise.                   *)
LEMMA ReachedHere ==
  ASSUME NEW H, NEW M, Listed(PNodes, H, Pcb, p_list, M), pcbFree_h \in H, g_ready_queue \in H,
         NEW K \in SUBSET Pcb, NEW C, Listed(SNodes, Childs(K), K, p_sib, C),
         NEW G, Listed(FNodes, FHead, Semd, s_freelink, G),
         NEW L, Strands(Buckets, Semd, s_link, L, {}),
         Sems(M, G[semdFree_h], L, s_key, p_semAdd), Tree(M[pcbFree_h], C, K, p_parent)
  PROVE  /\ IInv
         /\ AFree = M[pcbFree_h] /\ AReady = M[g_ready_queue]
         /\ AProcq = Served(M, L, s_key)
         /\ AChild = KidsOf(K, C)
<1>1. PHeads(p_list) = H /\ PQ(p_list) = M /\ POK(p_list)
  BY PFrom
<1>2. KnownIn(p_sib) = K /\ SQ(p_sib) = C /\ SOK(p_sib)
  BY SFrom
<1>3. FQ(s_freelink) = G /\ FOK(s_freelink)
  BY FFrom
<1>4. HQ(s_link) = L /\ HOK(s_link)
  BY HFrom
<1>5. SemsOK /\ TreeOK
  BY <1>1, <1>2, <1>3, <1>4 DEF SemsOK, TreeOK
<1>6. IInv
  BY <1>1, <1>2, <1>3, <1>4, <1>5 DEF IInv
<1> QED
  BY <1>1, <1>2, <1>4, <1>6, Here

(* No descriptor is hashed, and nobody is in the tree.                     *)
LEMMA NobodyServed ==
  ASSUME NEW M, NEW key, NEW C
  PROVE  /\ Served(M, NoBuckets, key) = [s \in SemKey |-> <<>>]
         /\ KidsOf({}, C) = [p \in Pcb |-> <<>>]
<1>1. \A s \in SemKey : ~ Owned(NoBuckets, key, s)
  BY EmptyBuckets DEF Owned
<1>2. Served(M, NoBuckets, key) = [s \in SemKey |-> <<>>]
  BY <1>1 DEF Served
<1> QED
  BY <1>2 DEF KidsOf

(* The initial states of Queues.                                           *)
LEMMA AbstractInit ==
  ASSUME AFree \in [1 .. Cardinality(Pcb) -> Pcb], IsInjective(AFree), AReady = <<>>,
         AProcq = [s \in SemKey |-> <<>>], AChild = [p \in Pcb |-> <<>>],
         p_semAdd = Zero(Pcb), p_parent = Zero(Pcb), result = NULL
  PROVE  abstract!Init
<1>1. abstract!Cardinality(Pcb) = Cardinality(Pcb) /\ abstract!IsInjective(AFree)
  BY QueuesOperators
<1>2. AFree \in {s \in [1 .. abstract!Cardinality(Pcb) -> Pcb] : abstract!IsInjective(s)}
  BY <1>1
<1> QED
  BY <1>2 DEF abstract!Init, AFree, AReady, AProcq, AChild, Zero

(* initPcbs and initASH reach the invariant, and an initial state of       *)
(* Queues.                                                                 *)
LEMMA InitStart ==
  ASSUME Init
  PROVE  IInv /\ abstract!Init
<1> DEFINE H == {pcbFree_h, g_ready_queue}
           L == NoBuckets
           f == semdFree_h
<1>1. /\ p_sib = [next |-> Zero(SNodes), prev |-> Zero(SNodes)]
      /\ s_link = [next |-> Zero(Buckets \cup Semd), pprev |-> Zero(Semd)]
      /\ p_parent = Zero(Pcb) /\ p_semAdd = Zero(Pcb) /\ s_key = Zero(Semd) /\ result = NULL
  BY DEF Init, SNodes
<1>2. PICK M : /\ Listed(PNodes, H, Pcb, p_list, M)
               /\ ToSet(M[pcbFree_h]) = Pcb /\ M[g_ready_queue] = <<>>
  <2>1. PICK table \in Tables(Pcb) : p_list = initPcbs(table)
    BY DEF Init
  <2> HIDE DEF H
  <2>2. \E M : /\ Listed(PNodes, H, Pcb, initPcbs(table), M)
               /\ ToSet(M[pcbFree_h]) = Pcb /\ M[g_ready_queue] = <<>>
    BY FreePcbs DEF H
  <2> QED
    BY <2>1, <2>2
<1>3. PICK G : Listed(FNodes, FHead, Semd, s_freelink, G) /\ ToSet(G[f]) = Semd
  <2>1. PICK table \in Tables(Semd) : s_freelink = initASH(table)
    BY DEF Init
  <2>2. \E G : Listed(FNodes, FHead, Semd, initASH(table), G) /\ ToSet(G[f]) = Semd
    BY FreeSemds
  <2> QED
    BY <2>1, <2>2
<1>4. Strands(Buckets, Semd, s_link, L, {}) /\ InBuckets(L) = {}
  BY <1>1, EmptyBuckets
<1>5. Childs({}) = {} /\ {} \in SUBSET Pcb
  BY DEF Childs
<1>6. Listed(SNodes, Childs({}), {}, p_sib, NoLists)
  <2>1. Listed(SNodes, {}, {}, [next |-> Zero(SNodes), prev |-> Zero(SNodes)], NoLists)
    BY Apartness, StaticListed
  <2> QED
    BY <2>1, <1>1, <1>5
<1>7. DOMAIN M = H
  BY <1>2 DEF Listed
<1>8. Sems(M, G[f], L, s_key, p_semAdd)
  <2>1. KeyTypes(s_key, p_semAdd) /\ \A p \in Pcb : p_semAdd[p] = NULL
    BY <1>1 DEF KeyTypes, Zero
  <2>2. Hashed(M, L, s_key, p_semAdd) /\ KeysDistinct(L, s_key)
    BY <1>4 DEF Hashed, KeysDistinct
  <2>3. DOMAIN M \cap Semd = {}
    BY <1>7, Apartness
  <2>4. Unhashed(M, G[f], L)
    <3> HIDE DEF L, f
    <3>1. ToSet(G[f]) = Semd \ InBuckets(L)
      BY <1>3, <1>4
    <3>2. \A d \in (DOMAIN M \cap Semd) \ InBuckets(L) : M[d] = <<>>
      BY <2>3
    <3> QED
      BY <3>1, <3>2 DEF Unhashed
  <2>5. BlockedQueued(M, L, p_semAdd)
    BY <2>1 DEF BlockedQueued
  <2> QED
    BY <2>1, <2>2, <2>4, <2>5 DEF Sems
<1>9. Tree(M[pcbFree_h], NoLists, {}, p_parent)
  BY <1>1 DEF Tree, Zero
<1>10. pcbFree_h \in H /\ g_ready_queue \in H
  OBVIOUS
<1> HIDE DEF H, L
<1>11. /\ IInv
       /\ AFree = M[pcbFree_h] /\ AReady = M[g_ready_queue]
       /\ AProcq = Served(M, L, s_key)
       /\ AChild = KidsOf({}, NoLists)
  BY <1>2, <1>3, <1>4, <1>5, <1>6, <1>8, <1>9, <1>10, ReachedHere
<1>12. AReady = <<>> /\ AProcq = [s \in SemKey |-> <<>>] /\ AChild = [p \in Pcb |-> <<>>]
  BY <1>2, <1>11, NobodyServed DEF L
<1>13. AFree \in [1 .. Cardinality(Pcb) -> Pcb] /\ IsInjective(AFree)
  <2> HIDE DEF pcbFree_h
  <2>1. AFree \in Seq(Pcb) /\ IsInjective(AFree) /\ ToSet(AFree) = Pcb
    BY <1>2, <1>10, <1>11, ListedFacts
  <2> HIDE DEF AFree
  <2>2. IsFiniteSet(Pcb)
    BY Apartness
  <2> QED
    BY <2>1, <2>2, WholeTable
<1> QED
  BY <1>1, <1>11, <1>12, <1>13, AbstractInit

-----------------------------------------------------------------------------
(* Theorems *)

(* The lists, the hash table and the tree are as IInv says.                *)
THEOREM PointersKept == Spec => []IInv
<1>1. Init => IInv
  BY InitStart
<1>2. IInv /\ [Next]_vars => IInv'
  BY NextStep, Stutter
<1> QED
  BY <1>1, <1>2, PTL DEF Spec

(* No link of the PCBs is null, and each is in one circle of links at most.*)
THEOREM LinksAlwaysSound == Spec => []LinksSound
<1>1. IInv => LinksSound
  BY LinksFollow
<1> QED
  BY <1>1, PointersKept, PTL

(* Descriptors are free, or hashed by their key with somebody blocked.     *)
THEOREM DescriptorsAlwaysAccounted == Spec => []DescriptorsAccounted
<1>1. IInv => DescriptorsAccounted
  BY DescriptorsFollow
<1> QED
  BY <1>1, PointersKept, PTL

(* The pointers implement the queues, results included.                    *)
THEOREM PointersImplementQueues == Spec => ImplementsQueues
<1>1. Init => abstract!Init
  BY InitStart
<1>2. IInv /\ [Next]_vars => [abstract!Next]_(abstract!vars)
  BY NextStep, Stutter
<1> QED
  BY <1>1, <1>2, PointersKept, PTL DEF Spec, ImplementsQueues, abstract!Spec
=============================================================================
