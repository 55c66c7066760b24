----------------------------- MODULE ProcLife ------------------------------
(***************************************************************************)
(* What the nucleus promises about the life of a process, without saying   *)
(* how: it is created ready, runs in turn, blocks only while it runs,      *)
(* becomes ready again only from a block, and once its termination has     *)
(* begun it is never scheduled again.                                      *)
(***************************************************************************)
EXTENDS Naturals, Sequences, SequencesExt

CONSTANT Pcb

VARIABLES
  ready,    \* the processes that can run, in the order in which they will
  running,  \* the process that runs, as a set of at most one element
  blocked,  \* the processes that wait
  dying     \* the processes whose termination has begun

lifeVars == <<ready, running, blocked, dying>>

Alive == ToSet(ready) \cup running \cup blocked \cup dying

LifeInit ==
  /\ \E p \in Pcb : ready = <<p>>
  /\ running = {}
  /\ blocked = {}
  /\ dying = {}

Create == \E p \in Pcb \ Alive :
  /\ running # {}
  /\ dying = {}
  /\ ready' = Append(ready, p)
  /\ UNCHANGED <<running, blocked, dying>>

Dispatch ==
  /\ running = {}
  /\ dying = {}
  /\ ready # <<>>
  /\ running' = {Head(ready)}
  /\ ready' = Tail(ready)
  /\ UNCHANGED <<blocked, dying>>

Preempt == \E p \in running :
  /\ dying = {}
  /\ running' = running \ {p}
  /\ ready' = Append(ready, p)
  /\ UNCHANGED <<blocked, dying>>

BlockRunning == \E p \in running :
  /\ dying = {}
  /\ running' = running \ {p}
  /\ blocked' = blocked \cup {p}
  /\ UNCHANGED <<ready, dying>>

(* Some blocked processes join the ready queue, behind the others.         *)
WakeSome ==
  /\ dying = {}
  /\ blocked' \subseteq blocked
  /\ \E n \in 1 .. Len(ready') :
       /\ ready = SubSeq(ready', 1, n - 1)
       /\ ToSet(SubSeq(ready', n, Len(ready'))) = blocked \ blocked'
  /\ UNCHANGED <<running, dying>>

BeginTermination == \E p \in Alive \ dying :
  /\ dying' = dying \cup {p}
  /\ UNCHANGED <<ready, running, blocked>>

Unblock == \E p \in dying \cap blocked :
  /\ blocked' = blocked \ {p}
  /\ UNCHANGED <<ready, running, dying>>

EndTermination == \E p \in dying \ blocked :
  /\ dying' = dying \ {p}
  /\ running' = running \ {p}
  /\ ready' = RemoveFirst(ready, p)
  /\ UNCHANGED blocked

LifeNext ==
  \/ Create \/ Dispatch \/ Preempt \/ BlockRunning \/ WakeSome
  \/ BeginTermination \/ Unblock \/ EndTermination

LifeSpec == LifeInit /\ [][LifeNext]_lifeVars
=============================================================================
