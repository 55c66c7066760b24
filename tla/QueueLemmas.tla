----------------------------- MODULE QueueLemmas ----------------------------
(***************************************************************************)
(* What the queue operations of the kernel do to the set of the elements   *)
(* of a queue and to the absence of duplicates in it.                      *)
(***************************************************************************)
EXTENDS Integers, SequencesExt, TLAPS

(* insertProcQ: the process joins at the tail.                             *)
LEMMA AppendQueue ==
  ASSUME NEW S, NEW q \in Seq(S), NEW e \in S
  PROVE  /\ Append(q, e) \in Seq(S)
         /\ Append(q, e) # <<>>
         /\ ToSet(Append(q, e)) = ToSet(q) \cup {e}
         /\ IsInjective(q) /\ e \notin ToSet(q) => IsInjective(Append(q, e))
<1> DEFINE a == Append(q, e)
<1>1. a \in Seq(S) /\ Len(a) = Len(q) + 1 /\ Len(q) \in Nat
  OBVIOUS
<1>2. \A i \in 1 .. Len(q) : a[i] = q[i]
  OBVIOUS
<1>3. a[Len(q) + 1] = e
  OBVIOUS
<1>4. DOMAIN a = 1 .. Len(q) + 1 /\ DOMAIN q = 1 .. Len(q) /\ Len(q) \in Nat
  BY <1>1
<1> HIDE DEF a
<1>5. ToSet(a) = ToSet(q) \cup {e}
  BY <1>2, <1>3, <1>4 DEF ToSet
<1>6. ASSUME IsInjective(q), e \notin ToSet(q)
      PROVE  IsInjective(a)
  BY <1>2, <1>3, <1>4, <1>6 DEF ToSet, IsInjective
<1>7. a # <<>>
  BY <1>1
<1> QED
  BY <1>1, <1>5, <1>6, <1>7 DEF a

(* removeProcQ: the head leaves.                                           *)
LEMMA TailQueue ==
  ASSUME NEW S, NEW q \in Seq(S), q # <<>>
  PROVE  /\ Head(q) \in S
         /\ Head(q) \in ToSet(q)
         /\ Tail(q) \in Seq(S)
         /\ ToSet(q) = ToSet(Tail(q)) \cup {Head(q)}
         /\ IsInjective(q) => IsInjective(Tail(q)) /\ Head(q) \notin ToSet(Tail(q))
<1> DEFINE t == Tail(q)
<1>1. t \in Seq(S) /\ Len(t) = Len(q) - 1 /\ Len(q) \in Nat /\ Len(q) > 0
  OBVIOUS
<1>2. \A i \in 1 .. Len(t) : t[i] = q[i + 1]
  BY <1>1
<1>3. Head(q) = q[1] /\ Head(q) \in S
  BY <1>1
<1>4. DOMAIN t = 1 .. Len(q) - 1 /\ DOMAIN q = 1 .. Len(q)
  BY <1>1
<1> HIDE DEF t
<1>5. ToSet(q) \subseteq ToSet(t) \cup {Head(q)}
  <2> SUFFICES ASSUME NEW i \in DOMAIN q, q[i] # Head(q)
               PROVE  q[i] \in ToSet(t)
    BY DEF ToSet
  <2>1. i - 1 \in 1 .. Len(t) /\ t[i - 1] = q[i]
    BY <1>1, <1>2, <1>3, <1>4
  <2> QED
    BY <2>1, <1>1, <1>4 DEF ToSet
<1>6. ToSet(t) \cup {Head(q)} \subseteq ToSet(q)
  <2>1. \A i \in DOMAIN t : t[i] = q[i + 1] /\ i + 1 \in DOMAIN q
    BY <1>1, <1>2, <1>4
  <2>2. Head(q) \in ToSet(q)
    BY <1>1, <1>3, <1>4 DEF ToSet
  <2> QED
    BY <2>1, <2>2 DEF ToSet
<1>7. ASSUME IsInjective(q)
      PROVE  IsInjective(t) /\ Head(q) \notin ToSet(t)
  <2>1. \A i \in DOMAIN t : t[i] = q[i + 1] /\ i + 1 \in DOMAIN q /\ i \in Int /\ i + 1 # 1
    BY <1>1, <1>2, <1>4
  <2>2. IsInjective(t)
    BY <2>1, <1>7 DEF IsInjective
  <2>3. Head(q) \notin ToSet(t)
    BY <2>1, <1>1, <1>3, <1>4, <1>7 DEF IsInjective, ToSet
  <2> QED
    BY <2>2, <2>3
<1> QED
  BY <1>1, <1>3, <1>5, <1>6, <1>7 DEF t

(* The tick: the waiting processes join the ready ones.                    *)
LEMMA ConcatQueue ==
  ASSUME NEW S, NEW q \in Seq(S), NEW r \in Seq(S)
  PROVE  /\ q \o r \in Seq(S)
         /\ ToSet(q \o r) = ToSet(q) \cup ToSet(r)
         /\ IsInjective(q) /\ IsInjective(r) /\ ToSet(q) \cap ToSet(r) = {}
              => IsInjective(q \o r)
<1> DEFINE c == q \o r
<1>1. c \in Seq(S) /\ Len(c) = Len(q) + Len(r) /\ Len(q) \in Nat /\ Len(r) \in Nat
  OBVIOUS
<1>2. \A i \in 1 .. Len(c) : c[i] = IF i <= Len(q) THEN q[i] ELSE r[i - Len(q)]
  OBVIOUS
<1>3. DOMAIN c = 1 .. Len(q) + Len(r) /\ DOMAIN q = 1 .. Len(q) /\ DOMAIN r = 1 .. Len(r)
  BY <1>1
<1> HIDE DEF c
<1>4. \A i \in DOMAIN c :
        \/ i \in DOMAIN q /\ c[i] = q[i]
        \/ i - Len(q) \in DOMAIN r /\ i > Len(q) /\ c[i] = r[i - Len(q)]
  BY <1>1, <1>2, <1>3
<1>5. \A i \in DOMAIN q : i \in DOMAIN c /\ c[i] = q[i]
  BY <1>1, <1>2, <1>3
<1>6. \A i \in DOMAIN r : i + Len(q) \in DOMAIN c /\ c[i + Len(q)] = r[i]
  <2> TAKE i \in DOMAIN r
  <2>1. i + Len(q) \in 1 .. Len(c) /\ ~ (i + Len(q) <= Len(q)) /\ (i + Len(q)) - Len(q) = i
    BY <1>1, <1>3
  <2> QED
    BY <2>1, <1>1, <1>2, <1>3
<1>7. ToSet(c) = ToSet(q) \cup ToSet(r)
  <2>1. ToSet(c) \subseteq ToSet(q) \cup ToSet(r)
    BY <1>4 DEF ToSet
  <2>2. ToSet(q) \subseteq ToSet(c)
    BY <1>5 DEF ToSet
  <2>3. ToSet(r) \subseteq ToSet(c)
    BY <1>6 DEF ToSet
  <2> QED
    BY <2>1, <2>2, <2>3
<1>8. ASSUME IsInjective(q), IsInjective(r), ToSet(q) \cap ToSet(r) = {}
      PROVE  IsInjective(c)
  <2> SUFFICES ASSUME NEW i \in DOMAIN c, NEW j \in DOMAIN c, c[i] = c[j]
               PROVE  i = j
    BY DEF IsInjective
  <2>1. \A m \in DOMAIN q, n \in DOMAIN r : q[m] # r[n]
    BY <1>8 DEF ToSet
  <2>2. CASE i \in DOMAIN q /\ c[i] = q[i]
    BY <2>1, <2>2, <1>4, <1>8 DEF IsInjective
  <2>3. CASE i - Len(q) \in DOMAIN r /\ i > Len(q) /\ c[i] = r[i - Len(q)]
    <3>1. j - Len(q) \in DOMAIN r /\ c[j] = r[j - Len(q)]
      BY <2>1, <2>3, <1>4
    <3>2. i - Len(q) = j - Len(q)
      BY <2>3, <3>1, <1>8 DEF IsInjective
    <3>3. i \in Int /\ j \in Int
      BY <1>1, <1>3
    <3> QED
      BY <3>2, <3>3, <1>1
  <2> QED
    BY <2>2, <2>3, <1>4
<1> QED
  BY <1>1, <1>7, <1>8 DEF c

(* list_del of the n-th element.                                           *)
LEMMA RemoveAtQueue ==
  ASSUME NEW S, NEW q \in Seq(S), NEW n \in 1 .. Len(q)
  PROVE  /\ RemoveAt(q, n) \in Seq(S)
         /\ IsInjective(q) => /\ IsInjective(RemoveAt(q, n))
                              /\ ToSet(RemoveAt(q, n)) = ToSet(q) \ {q[n]}
<1> DEFINE a == SubSeq(q, 1, n - 1)
           b == SubSeq(q, n + 1, Len(q))
           L == Len(q)
<1>1. L \in Nat /\ n \in Int /\ 1 <= n /\ n <= L /\ DOMAIN q = 1 .. L
  OBVIOUS
<1>2. /\ a \in Seq(S)
      /\ Len(a) = IF 1 <= n - 1 THEN n - 1 - 1 + 1 ELSE 0
      /\ \A i \in 1 .. n - 1 - 1 + 1 : a[i] = q[1 + i - 1]
  BY <1>1
<1>3. /\ b \in Seq(S)
      /\ Len(b) = IF n + 1 <= L THEN L - (n + 1) + 1 ELSE 0
      /\ \A i \in 1 .. L - (n + 1) + 1 : b[i] = q[n + 1 + i - 1]
  BY <1>1
<1>4. RemoveAt(q, n) = a \o b
  BY DEF RemoveAt
<1>8. DOMAIN a = 1 .. Len(a) /\ DOMAIN b = 1 .. Len(b)
  BY <1>2, <1>3
<1> HIDE DEF a, b, L
<1>5. /\ DOMAIN a = 1 .. n - 1 /\ DOMAIN b = 1 .. L - n
      /\ \A i \in 1 .. n - 1 : a[i] = q[i]
      /\ \A i \in 1 .. L - n : b[i] = q[n + i]
  <2>1. Len(a) = n - 1 /\ Len(b) = L - n
    BY <1>1, <1>2, <1>3
  <2>2. ASSUME NEW i \in 1 .. L - n
        PROVE  b[i] = q[n + i]
    <3>1. i \in 1 .. L - (n + 1) + 1 /\ n + 1 + i - 1 = n + i
      BY <1>1
    <3> QED
      BY <3>1, <1>3
  <2>3. ASSUME NEW i \in 1 .. n - 1
        PROVE  a[i] = q[i]
    <3>1. i \in 1 .. n - 1 - 1 + 1 /\ 1 + i - 1 = i
      BY <1>1
    <3> QED
      BY <3>1, <1>2
  <2> QED
    BY <2>1, <2>2, <2>3, <1>8
<1>6. a \o b \in Seq(S) /\ ToSet(a \o b) = ToSet(a) \cup ToSet(b)
  BY <1>2, <1>3, ConcatQueue
<1>7. ASSUME IsInjective(q)
      PROVE  IsInjective(a \o b) /\ ToSet(a \o b) = ToSet(q) \ {q[n]}
  <2>1. IsInjective(a)
    BY <1>1, <1>5, <1>7 DEF IsInjective
  <2>2. IsInjective(b)
    <3> SUFFICES ASSUME NEW i \in 1 .. L - n, NEW j \in 1 .. L - n, b[i] = b[j]
                 PROVE  i = j
      BY <1>5 DEF IsInjective
    <3>1. n + i \in DOMAIN q /\ n + j \in DOMAIN q /\ q[n + i] = q[n + j]
      BY <1>1, <1>5
    <3>2. n + i = n + j
      BY <3>1, <1>7 DEF IsInjective
    <3> QED
      BY <3>2, <1>1
  <2>3. \A i \in 1 .. n - 1 : i \in DOMAIN q /\ i # n
    BY <1>1
  <2>4. \A i \in 1 .. L - n : n + i \in DOMAIN q /\ n + i # n
    BY <1>1
  <2>5. \A i \in 1 .. n - 1, j \in 1 .. L - n : i # n + j
    BY <1>1
  <2>6. ToSet(a) \cap ToSet(b) = {}
    <3> SUFFICES ASSUME NEW i \in 1 .. n - 1, NEW j \in 1 .. L - n, a[i] = b[j]
                 PROVE  FALSE
      BY <1>5 DEF ToSet
    <3>1. q[i] = q[n + j]
      BY <1>5
    <3> QED
      BY <3>1, <2>3, <2>4, <2>5, <1>7 DEF IsInjective
  <2>7. ToSet(a) \cup ToSet(b) \subseteq ToSet(q) \ {q[n]}
    <3>1. ASSUME NEW i \in 1 .. n - 1
          PROVE  a[i] \in ToSet(q) \ {q[n]}
      BY <2>3, <1>1, <1>5, <1>7 DEF ToSet, IsInjective
    <3>2. ASSUME NEW i \in 1 .. L - n
          PROVE  b[i] \in ToSet(q) \ {q[n]}
      <4>1. b[i] = q[n + i] /\ n + i \in DOMAIN q /\ n \in DOMAIN q /\ n + i # n
        BY <2>4, <1>1, <1>5
      <4> QED
        BY <4>1, <1>7 DEF ToSet, IsInjective
    <3> QED
      BY <3>1, <3>2, <1>5 DEF ToSet
  <2>8. ToSet(q) \ {q[n]} \subseteq ToSet(a) \cup ToSet(b)
    <3> SUFFICES ASSUME NEW i \in 1 .. L, q[i] # q[n]
                 PROVE  q[i] \in ToSet(a) \cup ToSet(b)
      BY <1>1 DEF ToSet
    <3>1. CASE i < n
      BY <3>1, <1>1, <1>5 DEF ToSet
    <3>2. CASE i > n
      <4>1. i - n \in 1 .. L - n /\ n + (i - n) = i
        BY <3>2, <1>1
      <4>2. b[i - n] = q[i]
        BY <4>1, <1>5
      <4> QED
        BY <4>1, <4>2, <1>5 DEF ToSet
    <3> QED
      BY <3>1, <3>2, <1>1
  <2>9. IsInjective(a \o b)
    BY <2>1, <2>2, <2>6, <1>2, <1>3, ConcatQueue
  <2> QED
    BY <2>7, <2>8, <2>9, <1>6
<1> QED
  BY <1>4, <1>6, <1>7

(* list_del of a process, wherever in the queue it is.                     *)
LEMMA RemoveFirstQueue ==
  ASSUME NEW S, NEW q \in Seq(S), NEW e, IsInjective(q)
  PROVE  /\ RemoveFirst(q, e) \in Seq(S)
         /\ IsInjective(RemoveFirst(q, e))
         /\ ToSet(RemoveFirst(q, e)) = ToSet(q) \ {e}
<1>1. CASE \E i \in 1 .. Len(q) : q[i] = e
  <2> DEFINE I == {i \in 1 .. Len(q) : q[i] = e}
             n == SelectInSeq(q, LAMBDA v : v = e)
  <2>1. n = Min(I)
    BY <1>1 DEF SelectInSeq
  <2>2. n \in I
    <3>1. \A i, j \in I : i = j
      BY DEF IsInjective
    <3>2. \E m \in I : \A j \in I : m <= j
      BY <3>1, <1>1
    <3> QED
      BY <2>1, <3>2 DEF Min
  <2>3. RemoveFirst(q, e) = RemoveAt(q, n)
    BY <1>1 DEF RemoveFirst
  <2>4. n \in 1 .. Len(q) /\ q[n] = e
    BY <2>2
  <2> HIDE DEF n
  <2> QED
    BY <2>3, <2>4, RemoveAtQueue
<1>2. CASE ~ \E i \in 1 .. Len(q) : q[i] = e
  <2>1. RemoveFirst(q, e) = q
    BY <1>2 DEF RemoveFirst
  <2>2. e \notin ToSet(q)
    BY <1>2 DEF ToSet
  <2> QED
    BY <2>1, <2>2
<1> QED
  BY <1>1, <1>2

-----------------------------------------------------------------------------
(* The kernel's call stack: its top is the head, its bottom the last       *)
(* element.                                                                *)

(* A return keeps the bottom frame, unless it was the only one.            *)
LEMMA PopStack ==
  ASSUME NEW S, NEW k \in Seq(S), k # <<>>
  PROVE  /\ Tail(k) \in Seq(S)
         /\ ToSet(Tail(k)) \subseteq ToSet(k)
         /\ Head(k) \in ToSet(k)
         /\ Head(k) \in S
         /\ Tail(k) # <<>> => Tail(k)[Len(Tail(k))] = k[Len(k)]
         /\ Head(k) # k[Len(k)] => Tail(k) # <<>>
<1>1. Tail(k) \in Seq(S) /\ ToSet(Tail(k)) \subseteq ToSet(k) /\ Head(k) \in ToSet(k) /\ Head(k) \in S
  BY TailQueue
<1>2. Len(k) \in Nat /\ Len(k) > 0 /\ Len(Tail(k)) = Len(k) - 1 /\ Head(k) = k[1]
  OBVIOUS
<1>3. ASSUME Tail(k) # <<>>
      PROVE  Tail(k)[Len(Tail(k))] = k[Len(k)]
  <2>1. Len(Tail(k)) > 0
    BY <1>1, <1>3
  <2> QED
    BY <2>1, <1>2
<1>4. ASSUME Tail(k) = <<>>
      PROVE  Head(k) = k[Len(k)]
  <2>1. Len(Tail(k)) = 0
    <3> DEFINE t == Tail(k)
    <3> HIDE DEF t
    <3> SUFFICES ASSUME t = <<>> PROVE Len(t) = 0
      BY <1>4 DEF t
    <3> QED
      OBVIOUS
  <2>2. Len(k) = 1
    BY <2>1, <1>2
  <2> QED
    BY <2>2, <1>2
<1> QED
  BY <1>1, <1>3, <1>4

(* A call keeps the bottom frame, unless the stack was empty.              *)
LEMMA PushStack ==
  ASSUME NEW S, NEW k \in Seq(S), NEW f \in S
  PROVE  /\ <<f>> \o k \in Seq(S)
         /\ <<f>> \o k # <<>>
         /\ ToSet(<<f>> \o k) = {f} \cup ToSet(k)
         /\ k # <<>> => (<<f>> \o k)[Len(<<f>> \o k)] = k[Len(k)]
<1>1. <<f>> \in Seq(S) /\ Len(<<f>>) = 1 /\ ToSet(<<f>>) = {f}
  BY DEF ToSet
<1>2. <<f>> \o k \in Seq(S) /\ ToSet(<<f>> \o k) = {f} \cup ToSet(k)
  <2> DEFINE g == <<f>>
  <2>1. g \in Seq(S) /\ ToSet(g) = {f}
    BY <1>1
  <2> HIDE DEF g
  <2>2. g \o k \in Seq(S) /\ ToSet(g \o k) = {f} \cup ToSet(k)
    BY <2>1, ConcatQueue
  <2> QED
    BY <2>2 DEF g
<1>3. Len(<<f>> \o k) = 1 + Len(k) /\ Len(k) \in Nat
  OBVIOUS
<1>4. <<f>> \o k # <<>>
  BY <1>2, <1>3
<1>5. ASSUME k # <<>>
      PROVE  (<<f>> \o k)[Len(<<f>> \o k)] = k[Len(k)]
  <2>1. Len(k) > 0
    BY <1>5
  <2>2. (<<f>> \o k)[1 + Len(k)] = k[Len(k)]
    BY <2>1
  <2> QED
    BY <2>2, <1>3
<1> QED
  BY <1>2, <1>4, <1>5

(* A stack of one frame.                                                   *)
LEMMA SingleFrame ==
  ASSUME NEW S, NEW f \in S
  PROVE  /\ <<f>> \in Seq(S)
         /\ <<f>> # <<>>
         /\ ToSet(<<f>>) = {f}
         /\ <<f>>[Len(<<f>>)] = f
  BY DEF ToSet

(* The empty queue.                                                        *)
LEMMA EmptyQueue ==
  ASSUME NEW S
  PROVE  <<>> \in Seq(S) /\ ToSet(<<>>) = {} /\ IsInjective(<<>>)
  BY DEF ToSet, IsInjective

(* The elements put behind a queue are what is behind it.                  *)
LEMMA ConcatSplit ==
  ASSUME NEW S, NEW q \in Seq(S), NEW r \in Seq(S), r # <<>>
  PROVE  /\ Len(q) + 1 \in 1 .. Len(q \o r)
         /\ SubSeq(q \o r, 1, Len(q)) = q
         /\ ToSet(SubSeq(q \o r, Len(q) + 1, Len(q \o r))) = ToSet(r)
<1> DEFINE c == q \o r
           a == SubSeq(c, 1, Len(q))
           b == SubSeq(c, Len(q) + 1, Len(c))
<1>1. /\ c \in Seq(S) /\ Len(q) \in Nat /\ Len(r) \in Nat \ {0} /\ Len(c) = Len(q) + Len(r)
      /\ \A i \in 1 .. Len(q) : c[i] = q[i]
      /\ \A i \in 1 .. Len(r) : c[Len(q) + i] = r[i]
  OBVIOUS
<1> HIDE DEF c
<1>2. /\ a \in Seq(S) /\ Len(a) = Len(q) /\ \A i \in 1 .. Len(q) : a[i] = q[i]
  BY <1>1
<1>3. a = q
  BY <1>2
<1>4. /\ b \in Seq(S) /\ Len(b) = Len(r) /\ \A i \in 1 .. Len(r) : b[i] = r[i]
  BY <1>1
<1>5. b = r
  BY <1>4
<1>6. Len(q) + 1 \in 1 .. Len(c)
  BY <1>1
<1> QED
  BY <1>3, <1>5, <1>6, Zenon DEF c
=============================================================================
