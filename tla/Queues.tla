------------------------------- MODULE Queues ------------------------------
(***************************************************************************)
(* What phase1 promises to the nucleus: a LIFO of free PCBs, a FIFO of     *)
(* ready processes, one FIFO per semaphore and the children of a process   *)
(* in the order of their birth.  The nucleus is modelled on this view      *)
(* (module Nucleus); module Phase1 shows that the linked lists and the     *)
(* hash table implement it.                                                *)
(***************************************************************************)
EXTENDS Integers, FiniteSets, SequencesExt

CONSTANTS Pcb, SemKey, NULL,
          MaxSemd   \* how many semaphores can have a queue at a time

VARIABLES free, ready,   \* sequences of PCBs
          procq,         \* the queue of each semaphore
          semAdd,        \* the semaphore a PCB is blocked on
          parent, child, \* the tree
          ret            \* the last call, its arguments and its result

vars == <<free, ready, procq, semAdd, parent, child, ret>>

Blocked == {p \in Pcb : semAdd[p] # NULL}
Free == ToSet(free)
Active == {s \in SemKey : procq[s] # <<>>}
ChildOfSomeone(p) == \E q \in Pcb : p \in ToSet(child[q])
Orphaned(p) == [q \in Pcb |-> RemoveFirst(child[q], p)]

(* How the nucleus calls these functions: a PCB is freed once it is off    *)
(* its semaphore and out of the tree; what is queued is not blocked; what  *)
(* gets a parent has no children yet.                                      *)
MayFree(p) == p \notin Blocked /\ child[p] = <<>> /\ ~ ChildOfSomeone(p)
MayReady(p) == p \notin Blocked \cup Free
MayBlock(p) == p \notin Blocked
MayAdopt(q, p) == q # p /\ {q, p} \cap Free = {} /\ child[p] = <<>>

First(q) == IF q = <<>> THEN NULL ELSE Head(q)

Returns(call, args, value) == ret' = <<call, args, value>>

allocPcb ==
  IF free = <<>>
  THEN Returns("allocPcb", <<>>, NULL) /\ UNCHANGED <<free, ready, procq, semAdd, parent, child>>
  ELSE /\ Returns("allocPcb", <<>>, Head(free))
       /\ free' = Tail(free)
       /\ semAdd' = [semAdd EXCEPT ![Head(free)] = NULL]
       /\ parent' = [parent EXCEPT ![Head(free)] = NULL]
       /\ child' = [child EXCEPT ![Head(free)] = <<>>]
       /\ UNCHANGED <<ready, procq>>

freePcb(p) ==
  /\ Returns("freePcb", <<p>>, NULL)
  /\ MayFree(p)
  /\ free' = <<p>> \o RemoveFirst(free, p)
  /\ ready' = RemoveFirst(ready, p)
  /\ UNCHANGED <<procq, semAdd, parent, child>>

insertProcQ(p) ==
  /\ Returns("insertProcQ", <<p>>, NULL)
  /\ MayReady(p)
  /\ ready' = Append(RemoveFirst(ready, p), p)
  /\ UNCHANGED <<free, procq, semAdd, parent, child>>

removeProcQ ==
  /\ Returns("removeProcQ", <<>>, First(ready))
  /\ ready' = IF ready = <<>> THEN ready ELSE Tail(ready)
  /\ UNCHANGED <<free, procq, semAdd, parent, child>>

headProcQ ==
  Returns("headProcQ", <<>>, First(ready)) /\ UNCHANGED <<free, ready, procq, semAdd, parent, child>>

headBlocked(s) ==
  /\ Returns("headBlocked", <<s>>, First(procq[s]))
  /\ UNCHANGED <<free, ready, procq, semAdd, parent, child>>

outProcQ(p) ==
  /\ Returns("outProcQ", <<p>>, IF p \in ToSet(ready) THEN p ELSE NULL)
  /\ ready' = RemoveFirst(ready, p)
  /\ UNCHANGED <<free, procq, semAdd, parent, child>>

insertChild(q, p) ==
  /\ Returns("insertChild", <<q, p>>, NULL)
  /\ MayAdopt(q, p)
  /\ parent' = [parent EXCEPT ![p] = q]
  /\ child' = [Orphaned(p) EXCEPT ![q] = Append(@, p)]
  /\ UNCHANGED <<free, ready, procq, semAdd>>

removeChild(q) ==
  /\ Returns("removeChild", <<q>>, First(child[q]))
  /\ child' = IF child[q] = <<>> THEN child ELSE [child EXCEPT ![q] = Tail(@)]
  /\ UNCHANGED <<free, ready, procq, semAdd, parent>>

outChild(p) ==
  /\ Returns("outChild", <<p>>, IF ChildOfSomeone(p) THEN p ELSE NULL)
  /\ child' = Orphaned(p)
  /\ UNCHANGED <<free, ready, procq, semAdd, parent>>

HasSemd(s) == s \in Active \/ Cardinality(Active) < MaxSemd

(* The result TRUE says that there is no descriptor for another semaphore. *)
insertBlocked(s, p) ==
  /\ Returns("insertBlocked", <<s, p>>, ~ HasSemd(s))
  /\ MayBlock(p)
  /\ IF HasSemd(s)
     THEN /\ free' = RemoveFirst(free, p)
          /\ ready' = RemoveFirst(ready, p)
          /\ procq' = [procq EXCEPT ![s] = Append(@, p)]
          /\ semAdd' = [semAdd EXCEPT ![p] = s]
     ELSE UNCHANGED <<free, ready, procq, semAdd>>
  /\ UNCHANGED <<parent, child>>

removeBlocked(s) ==
  /\ Returns("removeBlocked", <<s>>, First(procq[s]))
  /\ IF procq[s] = <<>>
     THEN UNCHANGED <<procq, semAdd>>
     ELSE /\ procq' = [procq EXCEPT ![s] = Tail(@)]
          /\ semAdd' = [semAdd EXCEPT ![Head(procq[s])] = NULL]
  /\ UNCHANGED <<free, ready, parent, child>>

outBlocked(p) ==
  /\ Returns("outBlocked", <<p>>, IF p \in Blocked THEN p ELSE NULL)
  /\ IF p \in Blocked
     THEN /\ procq' = [procq EXCEPT ![semAdd[p]] = RemoveFirst(@, p)]
          /\ semAdd' = [semAdd EXCEPT ![p] = NULL]
     ELSE UNCHANGED <<procq, semAdd>>
  /\ UNCHANGED <<free, ready, parent, child>>

Init ==
  /\ free \in {s \in [1 .. Cardinality(Pcb) -> Pcb] : IsInjective(s)}
  /\ ready = <<>>
  /\ procq = [s \in SemKey |-> <<>>]
  /\ semAdd = [p \in Pcb |-> NULL]
  /\ parent = [p \in Pcb |-> NULL]
  /\ child = [p \in Pcb |-> <<>>]
  /\ ret = NULL

Next ==
  \/ allocPcb \/ removeProcQ \/ headProcQ
  \/ \E p \in Pcb : freePcb(p) \/ insertProcQ(p) \/ outProcQ(p) \/ outChild(p)
                      \/ removeChild(p) \/ outBlocked(p)
  \/ \E p, q \in Pcb : insertChild(q, p)
  \/ \E s \in SemKey : removeBlocked(s) \/ headBlocked(s) \/ \E p \in Pcb : insertBlocked(s, p)

Spec == Init /\ [][Next]_vars
=============================================================================
