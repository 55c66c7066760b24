------------------------------- MODULE Phase1 ------------------------------
(***************************************************************************)
(* src/phase1/process.c and semaphore.c with their pointers: the PCB and   *)
(* SEMD tables, the lists threaded through them and the hash table of the  *)
(* active semaphores.  Operations of Lists on these memories are steps of  *)
(* the functions below.                                                    *)
(***************************************************************************)
EXTENDS Lists

CONSTANTS
  Pcb, Semd,    \* the entries of pcbFree_table and semd_table
  SemKey,       \* addresses of semaphores, as numbers
  WORD,         \* width of an address in bits (32)
  GOLDEN_RATIO, \* the multiplier of hash_32
  TABLE_BITS,   \* semd_h has 2^TABLE_BITS buckets (5)
  MaxChildren   \* bound on the processes with a parent

(* 1 << n                                                                  *)
shl ==
  LET two[n \in 0 .. WORD + 1] == IF n = 0 THEN 1 ELSE 2 * two[n - 1]
  IN  [n \in 0 .. WORD + 1 |-> two[n]]

ASSUME TableAssumption ==
  /\ IsFiniteSet(Pcb) /\ IsFiniteSet(Semd) /\ Pcb \cap Semd = {}
  /\ NULL \notin Pcb \cup Semd \cup SemKey
  /\ WORD \in Nat /\ TABLE_BITS \in 1 .. WORD /\ GOLDEN_RATIO \in Nat
  /\ SemKey \subseteq 0 .. shl[WORD] - 1
  /\ MaxChildren \in Nat

VARIABLES
  p_list,       \* links of p_list, s_procq, pcbFree_h and the ready queue
  p_sib,        \* links of p_sib and p_child
  s_freelink,   \* links of s_freelink and semdFree_h
  s_link,       \* the buckets of semd_h and the nodes s_link
  p_parent, p_semAdd, s_key,
  result        \* the last call, its arguments and what it returned

procLists == <<p_list, p_sib, p_parent>>
semLists == <<s_freelink, s_link, s_key>>
vars == <<procLists, semLists, p_semAdd, result>>

(* The heads.  A SEMD stands for its s_procq, a PCB for its p_list or its  *)
(* p_sib; the address of a p_child is a pair.                              *)
pcbFree_h == "pcbFree_h"
g_ready_queue == "g_ready_queue"
semdFree_h == "semdFree_h"
p_child(p) == <<"p_child", p>>
HASH_SIZE == shl[TABLE_BITS]
Buckets == 0 .. HASH_SIZE - 1

(* Each of them has an address of its own.                                 *)
ASSUME AddressAssumption ==
  /\ {pcbFree_h, g_ready_queue, semdFree_h} \cap (Pcb \cup Semd \cup {NULL}) = {}
  /\ \A p \in Pcb : p_child(p) \notin Pcb \cup {NULL}
  /\ Buckets \cap (Semd \cup {NULL}) = {}

-----------------------------------------------------------------------------
(* hash.h, log2.h and hashtable.h *)

const_ilog2(n) == IF n < 2 THEN 0 ELSE CHOOSE k \in 1 .. WORD : shl[k] <= n /\ n < shl[k + 1]
HASH_BITS == const_ilog2(HASH_SIZE)
hash_32(val, bits) == ((val * GOLDEN_RATIO) % shl[WORD]) \div shl[WORD - bits]
hash_add(m, node, key) == hlist_add_head(m, node, hash_32(key, HASH_BITS))
hash_del(m, node) == hlist_del_init(m, node)

-----------------------------------------------------------------------------
(* process.c *)

Returns(call, args, value) == result' = <<call, args, value>>

Zero(nodes) == [x \in nodes |-> NULL]

(* list_add of each entry of a table.                                      *)
AddAll(m, table, head) ==
  LET added[i \in 0 .. Len(table)] ==
        IF i = 0 THEN m ELSE list_add(added[i - 1], table[i], head)
  IN  added[Len(table)]

(* Some order of the entries of a table: no name tells the first of them.  *)
Tables(S) == {t \in [1 .. Cardinality(S) -> S] : IsInjective(t)}

initPcbs(table) ==
  LET nodes == Pcb \cup Semd \cup {pcbFree_h, g_ready_queue}
      static == [next |-> Zero(nodes), prev |-> Zero(nodes)]
  IN  AddAll(INIT_LIST_HEAD(INIT_LIST_HEAD(static, pcbFree_h), g_ready_queue),
             table, pcbFree_h)

(* The PCB has been allocated at least once: its lists are initialised.    *)
Known(p) == p_sib.next[p_child(p)] # NULL

(* Mutant: the PCB is not taken off the queue it is in.                    *)
freePcbStillLinked(p) ==
  /\ p_list' = list_add(p_list, p, pcbFree_h)
  /\ Returns("freePcb", <<p>>, NULL)
  /\ UNCHANGED <<p_sib, p_parent, semLists, p_semAdd>>

freePcb(p) ==
  /\ LET m == IF list_empty(p_list, p) THEN p_list ELSE list_delete_safe(p_list, p)
     IN  p_list' = list_add(m, p, pcbFree_h)
  /\ Returns("freePcb", <<p>>, NULL)
  /\ UNCHANGED <<p_sib, p_parent, semLists, p_semAdd>>

(* reset zeroes the PCB; p_list is already linked to itself.               *)
reset(p) ==
  /\ p_sib' = INIT_LIST_HEAD(INIT_LIST_HEAD(p_sib, p_child(p)), p)
  /\ p_parent' = [p_parent EXCEPT ![p] = NULL]
  /\ p_semAdd' = [p_semAdd EXCEPT ![p] = NULL]

allocPcb ==
  /\ IF list_empty(p_list, pcbFree_h)
     THEN Returns("allocPcb", <<>>, NULL) /\ UNCHANGED <<procLists, p_semAdd>>
     ELSE LET p == p_list.next[pcbFree_h] IN
            /\ p_list' = list_delete_safe(p_list, p)
            /\ reset(p)
            /\ Returns("allocPcb", <<>>, p)
  /\ UNCHANGED semLists

emptyProcQ(m, head) == list_empty(m, head)

insertedProcQ(m, head, p) == list_add_tail(list_del(m, p), p, head)

insertProcQ(head, p) ==
  /\ p_list' = insertedProcQ(p_list, head, p)
  /\ Returns("insertProcQ", <<p>>, NULL)
  /\ UNCHANGED <<p_sib, p_parent, semLists, p_semAdd>>

firstProcQ(head) == IF emptyProcQ(p_list, head) THEN NULL ELSE p_list.next[head]

headProcQ(head) ==
  Returns("headProcQ", <<>>, firstProcQ(head)) /\ UNCHANGED <<procLists, semLists, p_semAdd>>

removeProcQ(head) ==
  /\ Returns("removeProcQ", <<>>, firstProcQ(head))
  /\ p_list' = IF emptyProcQ(p_list, head) THEN p_list
                                           ELSE list_delete_safe(p_list, p_list.next[head])
  /\ UNCHANGED <<p_sib, p_parent, semLists, p_semAdd>>

outProcQ(head, p) ==
  /\ IF p \in ToSet(list_for_each(p_list, head))
     THEN p_list' = list_delete_safe(p_list, p) /\ Returns("outProcQ", <<p>>, p)
     ELSE Returns("outProcQ", <<p>>, NULL) /\ UNCHANGED p_list
  /\ UNCHANGED <<p_sib, p_parent, semLists, p_semAdd>>

emptyChild(p) == list_empty(p_sib, p_child(p))

insertChild(parent, child) ==
  /\ p_parent' = [p_parent EXCEPT ![child] = parent]
  /\ p_sib' = list_add_tail_safe(p_sib, child, p_child(parent))
  /\ Returns("insertChild", <<parent, child>>, NULL)
  /\ UNCHANGED <<p_list, semLists, p_semAdd>>

removeChild(parent) ==
  /\ IF emptyChild(parent)
     THEN Returns("removeChild", <<parent>>, NULL) /\ UNCHANGED p_sib
     ELSE /\ Returns("removeChild", <<parent>>, p_sib.next[p_child(parent)])
          /\ p_sib' = list_delete_safe(p_sib, p_sib.next[p_child(parent)])
  /\ UNCHANGED <<p_list, p_parent, semLists, p_semAdd>>

(* Mutant: whoever has a parent is taken for one of its children.          *)
outChildUnsearched(child) ==
  /\ IF p_parent[child] # NULL
     THEN p_sib' = list_delete_safe(p_sib, child) /\ Returns("outChild", <<child>>, child)
     ELSE Returns("outChild", <<child>>, NULL) /\ UNCHANGED p_sib
  /\ UNCHANGED <<p_list, p_parent, semLists, p_semAdd>>

(* The parent's list is searched; p_parent is kept.                        *)
outChild(child) ==
  /\ IF /\ p_parent[child] # NULL
        /\ child \in ToSet(list_for_each(p_sib, p_child(p_parent[child])))
     THEN p_sib' = list_delete_safe(p_sib, child) /\ Returns("outChild", <<child>>, child)
     ELSE Returns("outChild", <<child>>, NULL) /\ UNCHANGED p_sib
  /\ UNCHANGED <<p_list, p_parent, semLists, p_semAdd>>

-----------------------------------------------------------------------------
(* semaphore.c *)

initASH(table) ==
  LET nodes == Semd \cup {semdFree_h}
      static == [next |-> Zero(nodes), prev |-> Zero(nodes)]
  IN  AddAll(INIT_LIST_HEAD(static, semdFree_h), table, semdFree_h)

(* Mutant: collisions are forgotten, only the first node is compared.      *)
find_semFirstOnly(semAdd) ==
  LET b == hash_32(semAdd, HASH_BITS)
  IN  IF hlist_empty(s_link, b) \/ s_key[s_link.next[b]] # semAdd
      THEN NULL ELSE s_link.next[b]

find_sem(semAdd) ==
  LET bucket == hlist_for_each(s_link, hash_32(semAdd, HASH_BITS))
      found == {i \in DOMAIN bucket : s_key[bucket[i]] = semAdd}
  IN  IF found = {} THEN NULL ELSE bucket[Min(found)]

(* alloc_semd, with reset, and the insertion in the hash table: what       *)
(* insertBlocked does when the semaphore has no descriptor.                *)
alloc_semd(sem, semAdd) ==
  /\ s_freelink' = list_delete_safe(s_freelink, sem)
  /\ s_link' = hash_add(INIT_HLIST_NODE(s_link, sem), sem, semAdd)
  /\ s_key' = [s_key EXCEPT ![sem] = semAdd]

insertBlocked(semAdd, p) ==
  LET sem == find_sem(semAdd)
      new == s_freelink.next[semdFree_h]
      enqueue(m, s) == insertedProcQ(list_delete_safe(m, p), s, p)
  IN  /\ IF sem = NULL /\ list_empty(s_freelink, semdFree_h)
         THEN Returns("insertBlocked", <<semAdd, p>>, TRUE) /\ UNCHANGED <<p_list, semLists, p_semAdd>>
         ELSE /\ IF sem = NULL
                 THEN /\ alloc_semd(new, semAdd)
                      /\ p_list' = enqueue(INIT_LIST_HEAD(p_list, new), new)
                 ELSE p_list' = enqueue(p_list, sem) /\ UNCHANGED semLists
              /\ p_semAdd' = [p_semAdd EXCEPT ![p] = semAdd]
              /\ Returns("insertBlocked", <<semAdd, p>>, FALSE)
      /\ UNCHANGED <<p_sib, p_parent>>

(* Mutant: the descriptor stays in the hash table.                         *)
free_semd_ifemptyHashed(sem, m) ==
  IF emptyProcQ(m, sem)
  THEN s_freelink' = list_add(s_freelink, sem, semdFree_h) /\ UNCHANGED <<s_link, s_key>>
  ELSE UNCHANGED semLists

(* m are the queues after the removal of a process.                        *)
free_semd_ifempty(sem, m) ==
  IF emptyProcQ(m, sem)
  THEN /\ s_link' = hash_del(s_link, sem)
       /\ s_freelink' = list_add(s_freelink, sem, semdFree_h)
       /\ UNCHANGED s_key
  ELSE UNCHANGED semLists

(* The process p leaves the queue of its semaphore, which may have been    *)
(* the last one.                                                           *)
unblock(sem, p) ==
  /\ p_list' = list_delete_safe(p_list, p)
  /\ free_semd_ifempty(sem, p_list')
  /\ p_semAdd' = [p_semAdd EXCEPT ![p] = NULL]

unblockNothing == UNCHANGED <<p_list, semLists, p_semAdd>>

removeBlocked(semAdd) ==
  LET sem == find_sem(semAdd)
  IN  /\ IF sem = NULL \/ emptyProcQ(p_list, sem)
         THEN unblockNothing /\ Returns("removeBlocked", <<semAdd>>, NULL)
         ELSE LET p == p_list.next[sem]
              IN  unblock(sem, p) /\ Returns("removeBlocked", <<semAdd>>, p)
      /\ UNCHANGED <<p_sib, p_parent>>

outBlocked(p) ==
  LET sem == IF p_semAdd[p] = NULL THEN NULL ELSE find_sem(p_semAdd[p])
  IN  /\ IF sem = NULL \/ p \notin ToSet(list_for_each(p_list, sem))
         THEN unblockNothing /\ Returns("outBlocked", <<p>>, NULL)
         ELSE unblock(sem, p) /\ Returns("outBlocked", <<p>>, p)
      /\ UNCHANGED <<p_sib, p_parent>>

headBlocked(semAdd) ==
  LET sem == find_sem(semAdd)
  IN  /\ Returns("headBlocked", <<semAdd>>, IF sem = NULL THEN NULL ELSE firstProcQ(sem))
      /\ UNCHANGED <<procLists, semLists, p_semAdd>>

-----------------------------------------------------------------------------
(* The sequences these structures stand for, and how the nucleus calls     *)

Queue(s) == IF find_sem(s) = NULL THEN <<>> ELSE list_for_each(p_list, find_sem(s))
Children(p) == IF Known(p) THEN list_for_each(p_sib, p_child(p)) ELSE <<>>

abstract == INSTANCE Queues WITH
              free <- list_for_each(p_list, pcbFree_h),
              ready <- list_for_each(p_list, g_ready_queue),
              procq <- [s \in SemKey |-> Queue(s)],
              child <- [p \in Pcb |-> Children(p)],
              semAdd <- p_semAdd, parent <- p_parent, ret <- result,
              MaxSemd <- Cardinality(Semd)

MayAdopt(q, p) ==
  /\ Known(q)
  /\ abstract!MayAdopt(q, p)
  /\ Cardinality({c \in Pcb : p_parent[c] # NULL}) < MaxChildren

Init ==
  /\ \E table \in Tables(Pcb) : p_list = initPcbs(table)
  /\ LET nodes == Pcb \cup {p_child(p) : p \in Pcb}
     IN  p_sib = [next |-> Zero(nodes), prev |-> Zero(nodes)]
  /\ \E table \in Tables(Semd) : s_freelink = initASH(table)
  /\ s_link = [next |-> Zero(Buckets \cup Semd), pprev |-> Zero(Semd)]
  /\ p_parent = Zero(Pcb)
  /\ p_semAdd = Zero(Pcb)
  /\ s_key = Zero(Semd)
  /\ result = NULL

Next ==
  \/ allocPcb
  \/ removeProcQ(g_ready_queue)
  \/ headProcQ(g_ready_queue)
  \/ \E s \in SemKey : removeBlocked(s) \/ headBlocked(s)
  \/ \E p \in {q \in Pcb : Known(q)} :
       \/ abstract!MayFree(p) /\ freePcb(p)
       \/ abstract!MayReady(p) /\ insertProcQ(g_ready_queue, p)
       \/ outProcQ(g_ready_queue, p)
       \/ \E q \in Pcb : MayAdopt(q, p) /\ insertChild(q, p)
       \/ removeChild(p)
       \/ outChild(p)
       \/ outBlocked(p)
       \/ \E s \in SemKey : abstract!MayBlock(p) /\ insertBlocked(s, p)

Spec == Init /\ [][Next]_vars

-----------------------------------------------------------------------------
(* The pointers implement the queues, the free list and the tree of module *)
(* Queues, with the results of every call: collisions in the hash table,   *)
(* the reuse of descriptors and PCBs and a second delete of an unlinked    *)
(* PCB are invisible.                                                      *)
ImplementsQueues == abstract!Spec

(* One p_list serves all queues.  Every PCB is in exactly one circle of    *)
(* links, its own or the one of a list that shows it, and no link is null: *)
(* list_del, which every insertion begins with, writes through both links. *)
LinksSound ==
  \A p \in Pcb :
    /\ p_list.next[p] # NULL /\ p_list.prev[p_list.next[p]] = p
    /\ p_list.next[p] # p =>
         Cardinality({h \in {pcbFree_h, g_ready_queue} \cup Semd :
                        p_list.next[h] # NULL /\ p \in ToSet(list_for_each(p_list, h))}) = 1

(* A descriptor is either free and in no bucket, or in the bucket of its   *)
(* key with a process in its queue; no semaphore has two.  This is what    *)
(* lets the nucleus count descriptors by non-empty queues.                 *)
DescriptorsAccounted ==
  LET freeSemd == ToSet(list_for_each(s_freelink, semdFree_h))
      hashed == {d \in Semd : ~ hlist_unhashed(s_link, d)}
  IN  /\ freeSemd = Semd \ hashed
      /\ \A d \in hashed :
           /\ d \in ToSet(hlist_for_each(s_link, hash_32(s_key[d], HASH_BITS)))
           /\ ~ list_empty(p_list, d)
           /\ \A e \in hashed \ {d} : s_key[e] # s_key[d]
=============================================================================
