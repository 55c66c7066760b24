--------------------------- MODULE NucleusProofs ---------------------------
(***************************************************************************)
(* Proofs about Nucleus, for any number of PCBs, semaphores and devices.   *)
(* The first part is about all clients and ends with the invariant of the  *)
(* queues and of the calls in progress; the second part is about the       *)
(* devices: their mutexes whatever the clients do, and registers, waits    *)
(* and results for all clients that neither share devices nor terminate    *)
(* processes that wait for one.  The third part is about the process tree, *)
(* the process count and the life of processes: the kernel loses no        *)
(* process, stops only when nothing can go on, and implements the life     *)
(* cycle of ProcLife.  It rests on the second: a kernel that blocks a      *)
(* process which is already gone puts a PCB back that nobody counts.       *)
(***************************************************************************)
EXTENDS Discipline, QueueLemmas, FiniteSetTheorems

-----------------------------------------------------------------------------
(* Frames *)

(* The arguments of a frame are of the kind its function takes.            *)
LEMMA FrameArguments ==
  ASSUME NEW f \in Frame
  PROVE  /\ f.fn \in {"sysPasseren", "sysVerhogen"} => f.sem \in SemAddr
         /\ f.fn = "beginIO" => f.dev \in Dev /\ f.pcb \in Pcb
         /\ f.fn = "releaseDevice" => f.dev \in Dev
         /\ f.fn \in {"terminateProcess", "terminateChildren"} => f.pcb \in Pcb
  BY DEF Frame

(* Every call the nucleus makes is a proper frame.                         *)
LEMMA FrameTypes ==
  /\ CallScheduler \in Frame
  /\ \A s \in SemAddr : CallPasseren(s) \in Frame /\ CallVerhogen(s) \in Frame
  /\ \A d \in Dev : CallReleaseDevice(d) \in Frame
  /\ \A d \in Dev, p \in Pcb : CallBeginIO(d, p) \in Frame
  /\ \A p \in Pcb : CallTerminateProcess(p) \in Frame /\ CallTerminateChildren(p) \in Frame
  BY DEF Frame, CallScheduler, CallPasseren, CallVerhogen, CallReleaseDevice,
         CallBeginIO, CallTerminateProcess, CallTerminateChildren

(* The addresses of the semaphores of devices, clock and programs.         *)
LEMMA SemAddrTypes ==
  /\ g_pseudo_clock \in SemAddr
  /\ \A d \in Dev : mut(d) \in SemAddr /\ sync(d) \in SemAddr
  /\ \A u \in {"user"} \X Sem : u \in SemAddr
  /\ \A s \in SemAddr : s[1] \in {"mut", "sync"} => s[2] \in Dev
  BY DEF SemAddr, mut, sync, g_pseudo_clock

(* The frame on top of the stack when a function runs.                     *)
LEMMA RunningFrame ==
  ASSUME TypeOK, NEW fn, Running(fn)
  PROVE  /\ kcall \in Seq(Frame) /\ kcall # <<>> /\ cpu = "kernel"
         /\ Head(kcall) \in Frame /\ Head(kcall) \in ToSet(kcall)
         /\ Head(kcall).fn = fn
  BY PopStack DEF TypeOK, Running

(* A function other than the scheduler returns to a stack with the same    *)
(* bottom, so what the stack promises still holds.                         *)
LEMMA ReturnKeepsStack ==
  ASSUME TypeOK, OffSemaphore, TerminationEndsInScheduler,
         NEW fn, fn # "scheduler", Running(fn), Return
  PROVE  /\ kcall' \in Seq(Frame)
         /\ ToSet(kcall') \subseteq ToSet(kcall)
         /\ EndsInScheduler => EndsInScheduler'
         /\ TerminationEndsInScheduler'
<1>1. kcall \in Seq(Frame) /\ kcall # <<>> /\ Head(kcall).fn = fn
  BY RunningFrame
<1>2. kcall' = Tail(kcall)
  BY DEF Return
<1>3. kcall' \in Seq(Frame) /\ ToSet(kcall') \subseteq ToSet(kcall)
  BY <1>1, <1>2, PopStack
<1>4. ASSUME EndsInScheduler
      PROVE  EndsInScheduler'
  <2>1. Head(kcall) # CallScheduler
    BY <1>1 DEF CallScheduler
  <2>2. kcall[Len(kcall)] = CallScheduler
    BY <1>4 DEF EndsInScheduler
  <2>3. Tail(kcall) # <<>> /\ Tail(kcall)[Len(Tail(kcall))] = CallScheduler
    BY <1>1, <2>1, <2>2, PopStack
  <2> QED
    BY <1>2, <2>3 DEF EndsInScheduler, CallScheduler
<1>5. TerminationEndsInScheduler'
  BY <1>3, <1>4 DEF TerminationEndsInScheduler
<1> QED
  BY <1>3, <1>4, <1>5

(* A call from the function on top of the stack, or in its last line.      *)
LEMMA CallKeepsStack ==
  ASSUME TypeOK, TerminationEndsInScheduler,
         NEW fn, fn # "scheduler", Running(fn), NEW f \in Frame,
         kcall' \in {<<f>> \o kcall, <<f>> \o Tail(kcall)},
         f.fn \in {"terminateProcess", "terminateChildren"} => EndsInScheduler
  PROVE  /\ kcall' \in Seq(Frame)
         /\ ToSet(kcall') \subseteq ToSet(kcall) \cup {f}
         /\ EndsInScheduler => EndsInScheduler'
         /\ TerminationEndsInScheduler'
<1>1. kcall \in Seq(Frame) /\ kcall # <<>> /\ Head(kcall).fn = fn
  BY RunningFrame
<1>2. /\ Tail(kcall) \in Seq(Frame)
      /\ ToSet(Tail(kcall)) \subseteq ToSet(kcall)
      /\ Tail(kcall) # <<>> => Tail(kcall)[Len(Tail(kcall))] = kcall[Len(kcall)]
      /\ Head(kcall) # kcall[Len(kcall)] => Tail(kcall) # <<>>
  BY <1>1, PopStack
<1>3. PICK k \in {kcall, Tail(kcall)} : kcall' = <<f>> \o k
  OBVIOUS
<1>4. /\ k \in Seq(Frame) /\ ToSet(k) \subseteq ToSet(kcall)
      /\ EndsInScheduler => k # <<>> /\ k[Len(k)] = CallScheduler
  <2>1. Head(kcall) # CallScheduler
    BY <1>1 DEF CallScheduler
  <2>2. CASE k = kcall
    BY <1>1, <2>2 DEF EndsInScheduler
  <2>3. CASE k = Tail(kcall)
    BY <1>2, <2>1, <2>3 DEF EndsInScheduler
  <2> QED
    BY <2>2, <2>3
<1>5. /\ kcall' \in Seq(Frame) /\ kcall' # <<>>
      /\ ToSet(kcall') = {f} \cup ToSet(k)
      /\ k # <<>> => kcall'[Len(kcall')] = k[Len(k)]
  BY <1>3, <1>4, PushStack
<1>6. EndsInScheduler => EndsInScheduler'
  BY <1>4, <1>5 DEF EndsInScheduler, CallScheduler
<1>7. TerminationEndsInScheduler'
  BY <1>4, <1>5, <1>6 DEF TerminationEndsInScheduler
<1> QED
  BY <1>4, <1>5, <1>6, <1>7

(* Processes leave semaphores while the stack shrinks or gets a frame that *)
(* does not terminate anything.                                            *)
LEMMA OffSemaphoreKept ==
  ASSUME TypeOK, OffSemaphore, NEW g, g.fn # "terminateChildren",
         ToSet(kcall') \subseteq ToSet(kcall) \cup {g},
         \A p \in Pcb : p_semAdd'[p] \in {p_semAdd[p], NULL}
  PROVE  OffSemaphore'
<1> SUFFICES ASSUME NEW f \in ToSet(kcall'), f.fn = "terminateChildren"
             PROVE  p_semAdd'[f.pcb] = NULL
  BY DEF OffSemaphore
<1>1. f \in ToSet(kcall)
  OBVIOUS
<1>2. f \in Frame
  BY <1>1 DEF TypeOK, ToSet
<1>3. f.pcb \in Pcb
  BY <1>2, FrameArguments
<1>4. p_semAdd[f.pcb] = NULL
  BY <1>1 DEF OffSemaphore
<1> QED
  BY <1>3, <1>4

(* A new stack with one frame.                                             *)
LEMMA NewStack ==
  ASSUME NEW f \in Frame, kcall' = <<f>>
  PROVE  /\ kcall' \in Seq(Frame)
         /\ ToSet(kcall') = {f}
         /\ f = CallScheduler => EndsInScheduler' /\ OffSemaphore' /\ TerminationEndsInScheduler'
<1>1. kcall' \in Seq(Frame) /\ kcall' # <<>> /\ ToSet(kcall') = {f} /\ kcall'[Len(kcall')] = f
  BY SingleFrame
<1> QED
  BY <1>1 DEF EndsInScheduler, OffSemaphore, TerminationEndsInScheduler, CallScheduler

(* A new stack with two frames.                                            *)
LEMMA NewStackOfTwo ==
  ASSUME NEW f \in Frame, NEW g \in Frame, kcall' = <<f, g>>
  PROVE  /\ kcall' \in Seq(Frame)
         /\ ToSet(kcall') = {f, g}
         /\ g = CallScheduler => EndsInScheduler'
<1>1. kcall' \in Seq(Frame) /\ ToSet(kcall') = {f, g}
  BY DEF ToSet
<1>2. kcall' # <<>> /\ Len(kcall') = 2 /\ kcall'[2] = g
  OBVIOUS
<1> QED
  BY <1>1, <1>2 DEF EndsInScheduler, CallScheduler

(* An empty stack promises nothing.                                        *)
LEMMA EmptyStack ==
  ASSUME kcall' = <<>>
  PROVE  kcall' \in Seq(Frame) /\ OffSemaphore' /\ TerminationEndsInScheduler'
<1>1. kcall' \in Seq(Frame) /\ ToSet(kcall') = {}
  BY EmptyQueue
<1> QED
  BY <1>1 DEF OffSemaphore, TerminationEndsInScheduler

-----------------------------------------------------------------------------
(* The queues of the semaphores *)

Queues == /\ SemAddMatchesQueue
          /\ \A s \in SemAddr : IsInjective(s_procq[s])

(* A process in a queue is blocked, and on that semaphore only.            *)
LEMMA QueuedIsBlocked ==
  ASSUME TypeOK, Queues, NEW s \in SemAddr, NEW p \in ToSet(s_procq[s])
  PROVE  p \in Pcb /\ p \in Blocked /\ p_semAdd[p] = s
<1>1. s_procq[s] \in Seq(Pcb)
  BY DEF TypeOK
<1>2. p \in Pcb
  BY <1>1 DEF ToSet
<1>3. p_semAdd[p] = s
  BY <1>2 DEF Queues, SemAddMatchesQueue
<1> QED
  BY <1>2, <1>3, NullAssumption DEF Blocked

(* removeBlocked keeps the queues and p_semAdd consistent.                 *)
LEMMA RemoveBlockedQueues ==
  ASSUME TypeOK, Queues, NEW s \in SemAddr, s_procq[s] # <<>>, removeBlocked(s)
  PROVE  /\ s_procq' \in [SemAddr -> Seq(Pcb)]
         /\ p_semAdd' \in [Pcb -> SemAddr \cup {NULL}]
         /\ Head(s_procq[s]) \in Blocked
         /\ Blocked' = Blocked \ {Head(s_procq[s])}
         /\ Queues'
<1> DEFINE h == Head(s_procq[s])
<1>1. s_procq \in [SemAddr -> Seq(Pcb)] /\ p_semAdd \in [Pcb -> SemAddr \cup {NULL}]
  BY DEF TypeOK
<1>2. /\ h \in Pcb /\ h \in ToSet(s_procq[s])
      /\ Tail(s_procq[s]) \in Seq(Pcb)
      /\ ToSet(s_procq[s]) = ToSet(Tail(s_procq[s])) \cup {h}
      /\ IsInjective(Tail(s_procq[s]))
      /\ h \notin ToSet(Tail(s_procq[s]))
  BY <1>1, TailQueue DEF Queues
<1>3. p_semAdd[h] = s /\ h \in Blocked
  BY <1>2, QueuedIsBlocked
<1>4. /\ s_procq' = [s_procq EXCEPT ![s] = Tail(s_procq[s])]
      /\ p_semAdd' = [p_semAdd EXCEPT ![h] = NULL]
  BY DEF removeBlocked
<1> HIDE DEF h
<1>5. s_procq' \in [SemAddr -> Seq(Pcb)] /\ p_semAdd' \in [Pcb -> SemAddr \cup {NULL}]
  BY <1>1, <1>2, <1>4
<1>6. Blocked' = Blocked \ {h}
  BY <1>1, <1>2, <1>4 DEF Blocked
<1>7. \A x \in SemAddr : IsInjective(s_procq'[x])
  BY <1>1, <1>2, <1>4 DEF Queues
<1>8. SemAddMatchesQueue'
  <2> SUFFICES ASSUME NEW p \in Pcb, NEW x \in SemAddr
               PROVE  p_semAdd'[p] = x <=> p \in ToSet(s_procq'[x])
    BY DEF SemAddMatchesQueue
  <2>1. p_semAdd[p] = x <=> p \in ToSet(s_procq[x])
    BY DEF Queues, SemAddMatchesQueue
  <2>2. CASE x = s
    BY <2>1, <2>2, <1>1, <1>2, <1>3, <1>4, NullAssumption
  <2>3. CASE x # s
    BY <2>1, <2>3, <1>1, <1>2, <1>3, <1>4, NullAssumption
  <2> QED
    BY <2>2, <2>3
<1> QED
  BY <1>3, <1>5, <1>6, <1>7, <1>8 DEF Queues, h

(* insertBlocked of a process that is in no queue.                         *)
LEMMA InsertBlockedQueues ==
  ASSUME TypeOK, Queues, NEW s \in SemAddr, NEW p \in Pcb, p \notin Blocked,
         insertBlocked(s, p)
  PROVE  /\ s_procq' \in [SemAddr -> Seq(Pcb)]
         /\ p_semAdd' \in [Pcb -> SemAddr \cup {NULL}]
         /\ pcbFree_h' \subseteq pcbFree_h
         /\ Blocked' \subseteq Blocked \cup {p}
         /\ p \in Blocked' => p \notin pcbFree_h'
         /\ Queues'
<1>1. s_procq \in [SemAddr -> Seq(Pcb)] /\ p_semAdd \in [Pcb -> SemAddr \cup {NULL}]
  BY DEF TypeOK
<1>2. CASE ~ SemdAvailable(s)
  <2>1. UNCHANGED <<pcbFree_h, s_procq, p_semAdd>>
    BY <1>2 DEF insertBlocked
  <2>2. Queues' /\ Blocked' = Blocked
    BY <2>1 DEF Queues, SemAddMatchesQueue, Blocked
  <2> QED
    BY <1>1, <2>1, <2>2
<1>3. CASE SemdAvailable(s)
  <2>1. /\ pcbFree_h' = pcbFree_h \ {p}
        /\ s_procq' = [s_procq EXCEPT ![s] = Append(s_procq[s], p)]
        /\ p_semAdd' = [p_semAdd EXCEPT ![p] = s]
    BY <1>3 DEF insertBlocked
  <2>2. p \notin ToSet(s_procq[s])
    BY QueuedIsBlocked
  <2>3. /\ Append(s_procq[s], p) \in Seq(Pcb)
        /\ ToSet(Append(s_procq[s], p)) = ToSet(s_procq[s]) \cup {p}
        /\ IsInjective(Append(s_procq[s], p))
    BY <1>1, <2>2, AppendQueue DEF Queues
  <2>4. s_procq' \in [SemAddr -> Seq(Pcb)] /\ p_semAdd' \in [Pcb -> SemAddr \cup {NULL}]
    BY <1>1, <2>1, <2>3
  <2>5. Blocked' \subseteq Blocked \cup {p}
    BY <1>1, <2>1 DEF Blocked
  <2>6. \A x \in SemAddr : IsInjective(s_procq'[x])
    BY <1>1, <2>1, <2>3 DEF Queues
  <2>7. SemAddMatchesQueue'
    <3> SUFFICES ASSUME NEW r \in Pcb, NEW x \in SemAddr
                 PROVE  p_semAdd'[r] = x <=> r \in ToSet(s_procq'[x])
      BY DEF SemAddMatchesQueue
    <3>1. p_semAdd[r] = x <=> r \in ToSet(s_procq[x])
      BY DEF Queues, SemAddMatchesQueue
    <3>2. p \notin ToSet(s_procq[x])
      BY QueuedIsBlocked
    <3>3. CASE x = s
      BY <3>1, <3>3, <1>1, <2>1, <2>3
    <3>4. CASE x # s
      BY <3>1, <3>2, <3>4, <1>1, <2>1
    <3> QED
      BY <3>3, <3>4
  <2> QED
    BY <2>1, <2>4, <2>5, <2>6, <2>7 DEF Queues
<1> QED
  BY <1>2, <1>3

-----------------------------------------------------------------------------
(* The steps of the kernel *)

(* What the lemmas about queues need of the invariant.                     *)
LEMMA InvariantQueues ==
  ASSUME IInv
  PROVE  TypeOK /\ Queues
  BY DEF IInv, Queues, ListsExclusive

(* Assembles the invariant from its parts.                                 *)
LEMMA InvariantParts ==
  ASSUME TypeOK, Queues, IsInjective(g_ready_queue),
         Ready \cap (pcbFree_h \cup Blocked) = {},
         pcbFree_h \cap Blocked = {},
         g_current_process \notin Ready \cup Blocked,
         OffSemaphore, TerminationEndsInScheduler, CurrentIsLive
  PROVE  IInv
  BY DEF IInv, Queues, ListsExclusive

(* What P and V have in common: one process becomes ready, or the value    *)
(* changes, or the current process blocks.                                 *)
LEMMA SemaphoreStep ==
  ASSUME IInv, NEW fn \in {"sysPasseren", "sysVerhogen"}, Running(fn),
         NEW s \in SemAddr, NEW delta \in Int,
         \/ s_procq[s] # <<>> /\ Wake(s)
         \/ Count(s, delta)
         \/ Block(s),
         UNCHANGED <<p_parent, p_child, g_process_count, ioVars,
                     g_soft_block_count, g_old_state>>
  PROVE  IInv'
<1>1. TypeOK /\ Queues /\ fn # "scheduler"
  BY InvariantQueues
<1>2. /\ IsInjective(g_ready_queue)
      /\ Ready \cap (pcbFree_h \cup Blocked) = {}
      /\ pcbFree_h \cap Blocked = {}
      /\ g_current_process \notin Ready \cup Blocked
      /\ OffSemaphore /\ TerminationEndsInScheduler /\ CurrentIsLive
  BY DEF IInv, ListsExclusive
<1>3. CASE s_procq[s] # <<>> /\ Wake(s)
  <2> DEFINE h == Head(s_procq[s])
  <2>1. /\ removeBlocked(s) /\ Return
        /\ g_ready_queue' = Append(g_ready_queue, h)
        /\ UNCHANGED <<semaphore, p_s, pcbFree_h, g_current_process, cpu>>
    BY <1>3 DEF Wake
  <2>2. /\ s_procq' \in [SemAddr -> Seq(Pcb)]
        /\ p_semAdd' \in [Pcb -> SemAddr \cup {NULL}]
        /\ h \in Blocked
        /\ Blocked' = Blocked \ {h}
        /\ Queues'
    BY <1>1, <1>3, <2>1, RemoveBlockedQueues
  <2> HIDE DEF h
  <2>3. h \in Pcb /\ h \notin Ready
    BY <1>2, <2>2 DEF Blocked
  <2>4. /\ g_ready_queue' \in Seq(Pcb)
        /\ Ready' = Ready \cup {h}
        /\ IsInjective(g_ready_queue')
    BY <1>1, <1>2, <2>1, <2>3, AppendQueue DEF TypeOK, Ready
  <2>5. /\ kcall' \in Seq(Frame) /\ ToSet(kcall') \subseteq ToSet(kcall)
        /\ EndsInScheduler => EndsInScheduler'
        /\ TerminationEndsInScheduler'
    BY <1>1, <1>2, <2>1, ReturnKeepsStack
  <2>6. TypeOK'
    BY <1>1, <2>1, <2>2, <2>4, <2>5 DEF TypeOK, ioVars
  <2>7. OffSemaphore'
    BY <1>1, <1>2, <2>2, <2>5, <2>1 DEF OffSemaphore, Blocked, TypeOK, removeBlocked, h
  <2>8. CurrentIsLive'
    BY <1>2, <2>1, <2>5 DEF CurrentIsLive, Processes, Live
  <2> QED
    BY <1>2, <2>1, <2>2, <2>4, <2>5, <2>6, <2>7, <2>8, InvariantParts DEF IInv, ListsExclusive, Queues
<1>4. CASE Count(s, delta)
  <2>1. /\ semaphore' = [semaphore EXCEPT ![s] = semaphore[s] + delta]
        /\ Return
        /\ UNCHANGED <<s_procq, p_semAdd, g_ready_queue, p_s, pcbFree_h, g_current_process, cpu>>
    BY <1>4 DEF Count, queueVars
  <2>2. /\ kcall' \in Seq(Frame) /\ ToSet(kcall') \subseteq ToSet(kcall)
        /\ EndsInScheduler => EndsInScheduler'
        /\ TerminationEndsInScheduler'
    BY <1>1, <1>2, <2>1, ReturnKeepsStack
  <2>3. TypeOK'
    BY <1>1, <2>1, <2>2 DEF TypeOK, ioVars
  <2>4. OffSemaphore'
    BY <1>2, <2>1, <2>2 DEF OffSemaphore
  <2>5. CurrentIsLive'
    BY <1>2, <2>1, <2>2 DEF CurrentIsLive, Processes, Live
  <2>6. ListsExclusive' /\ SemAddMatchesQueue'
    BY <2>1 DEF IInv, ListsExclusive, SemAddMatchesQueue, Ready, Blocked
  <2> QED
    BY <2>2, <2>3, <2>4, <2>5, <2>6 DEF IInv
<1>5. CASE Block(s)
  <2>1. CASE g_current_process = NULL
    <3>1. /\ cpu' = "fault" /\ kcall' = <<>>
          /\ UNCHANGED <<s_procq, p_semAdd, g_ready_queue, semaphore, p_s, pcbFree_h, g_current_process>>
      BY <1>5, <2>1 DEF Block
    <3>2. kcall' \in Seq(Frame) /\ ToSet(kcall') = {}
      BY <3>1, EmptyQueue
    <3>3. TypeOK'
      BY <1>1, <3>1, <3>2 DEF TypeOK, ioVars, Cpu, Stopped
    <3>4. ListsExclusive' /\ SemAddMatchesQueue'
      BY <3>1 DEF IInv, ListsExclusive, SemAddMatchesQueue, Ready, Blocked
    <3>5. OffSemaphore' /\ TerminationEndsInScheduler' /\ CurrentIsLive'
      BY <3>1, <3>2 DEF OffSemaphore, TerminationEndsInScheduler, CurrentIsLive
    <3> QED
      BY <3>3, <3>4, <3>5 DEF IInv
  <2>2. CASE g_current_process # NULL
    <3> DEFINE p == g_current_process
    <3>1. /\ p_s' = [p_s EXCEPT ![p] = g_old_state]
          /\ insertBlocked(s, p)
          /\ g_current_process' = NULL
          /\ kcall' = <<CallScheduler>>
          /\ UNCHANGED <<g_ready_queue, semaphore, cpu>>
      BY <1>5, <2>2 DEF Block
    <3>2. p \in Pcb /\ p \notin Blocked /\ p \notin Ready
      BY <1>1, <1>2, <2>2 DEF TypeOK
    <3> HIDE DEF p
    <3>3. /\ s_procq' \in [SemAddr -> Seq(Pcb)]
          /\ p_semAdd' \in [Pcb -> SemAddr \cup {NULL}]
          /\ pcbFree_h' \subseteq pcbFree_h
          /\ Blocked' \subseteq Blocked \cup {p}
          /\ p \in Blocked' => p \notin pcbFree_h'
          /\ Queues'
      BY <1>1, <3>1, <3>2, InsertBlockedQueues
    <3>4. kcall' \in Seq(Frame) /\ ToSet(kcall') = {CallScheduler} /\ EndsInScheduler'
      BY <3>1, FrameTypes, SingleFrame DEF EndsInScheduler
    <3>5. TypeOK'
      BY <1>1, <3>1, <3>3, <3>4 DEF TypeOK, ioVars
    <3>6. OffSemaphore' /\ TerminationEndsInScheduler'
      BY <3>4 DEF OffSemaphore, TerminationEndsInScheduler, CallScheduler
    <3>7. CurrentIsLive'
      BY <3>1, <3>4 DEF CurrentIsLive, Running
    <3>8. Ready' = Ready /\ IsInjective(g_ready_queue')
      BY <1>2, <3>1 DEF Ready
    <3>9. g_current_process' \notin Ready' \cup Blocked'
      BY <1>1, <3>1, <3>8, NullAssumption DEF Blocked, Ready, TypeOK, ToSet
    <3>10. Ready' \cap (pcbFree_h' \cup Blocked') = {} /\ pcbFree_h' \cap Blocked' = {}
      BY <1>2, <3>2, <3>3, <3>8
    <3> QED
      BY <3>3, <3>5, <3>6, <3>7, <3>8, <3>9, <3>10 DEF IInv, ListsExclusive, Queues
  <2> QED
    BY <2>1, <2>2
<1> QED
  BY <1>3, <1>4, <1>5

(* A step that moves no process.                                           *)
LEMMA NothingMoves ==
  ASSUME IInv, UNCHANGED <<pcbFree_h, p_semAdd, s_procq, g_ready_queue, g_current_process>>
  PROVE  ListsExclusive' /\ SemAddMatchesQueue'
  BY DEF IInv, ListsExclusive, SemAddMatchesQueue, Ready, Blocked

(* P keeps the invariant.                                                  *)
LEMMA sysPasserenStep == ASSUME IInv, sysPasseren PROVE IInv'
<1>1. Head(kcall).sem \in SemAddr /\ Running("sysPasseren")
  BY RunningFrame, FrameArguments DEF sysPasseren, IInv
<1>2. \/ s_procq[Head(kcall).sem] # <<>> /\ Wake(Head(kcall).sem)
      \/ Count(Head(kcall).sem, -1)
      \/ Block(Head(kcall).sem)
  BY DEF sysPasseren
<1>3. UNCHANGED <<p_parent, p_child, g_process_count, ioVars, g_soft_block_count, g_old_state>>
  BY DEF sysPasseren
<1>4. -1 \in Int
  OBVIOUS
<1> QED
  BY <1>1, <1>2, <1>3, <1>4, SemaphoreStep

(* V keeps the invariant.                                                  *)
LEMMA sysVerhogenStep == ASSUME IInv, sysVerhogen PROVE IInv'
<1>1. Head(kcall).sem \in SemAddr /\ Running("sysVerhogen")
  BY RunningFrame, FrameArguments DEF sysVerhogen, IInv
<1>2. \/ s_procq[Head(kcall).sem] # <<>> /\ Wake(Head(kcall).sem)
      \/ Count(Head(kcall).sem, 1)
      \/ Block(Head(kcall).sem)
  BY DEF sysVerhogen
<1>3. UNCHANGED <<p_parent, p_child, g_process_count, ioVars, g_soft_block_count, g_old_state>>
  BY DEF sysVerhogen
<1> QED
  BY <1>1, <1>2, <1>3, SemaphoreStep

(* beginIO only replaces its frame by the call of P.                       *)
LEMMA beginIOStep == ASSUME IInv, beginIO PROVE IInv'
<1> DEFINE d == Head(kcall).dev
<1>1. TypeOK /\ Running("beginIO") /\ OffSemaphore /\ TerminationEndsInScheduler /\ CurrentIsLive
  BY DEF IInv, beginIO
<1>2. d \in Dev /\ Head(kcall).pcb \in Pcb /\ CallPasseren(sync(d)) \in Frame
  BY <1>1, RunningFrame, FrameArguments, FrameTypes, SemAddrTypes
<1>3. /\ kcall' = <<CallPasseren(sync(d))>> \o Tail(kcall)
      /\ waiting_process' = [waiting_process EXCEPT ![d] = Head(kcall).pcb]
      /\ device' = [device EXCEPT ![d] = "busy"]
      /\ g_soft_block_count' = g_soft_block_count + 1
      /\ UNCHANGED <<pcbFree_h, p_parent, p_child, g_process_count, s_procq, p_semAdd,
                     g_ready_queue, p_s, semaphore, g_current_process, g_old_state, cpu>>
  BY DEF beginIO, procVars, queueVars
<1> HIDE DEF d
<1>4. CallPasseren(sync(d)).fn = "sysPasseren"
  BY DEF CallPasseren
<1>5. /\ kcall' \in Seq(Frame)
      /\ ToSet(kcall') \subseteq ToSet(kcall) \cup {CallPasseren(sync(d))}
      /\ EndsInScheduler => EndsInScheduler'
      /\ TerminationEndsInScheduler'
  BY <1>1, <1>2, <1>3, <1>4, CallKeepsStack
<1>6. TypeOK'
  BY <1>1, <1>2, <1>3, <1>5 DEF TypeOK
<1>7. OffSemaphore'
  BY <1>1, <1>3, <1>4, <1>5 DEF OffSemaphore
<1>8. CurrentIsLive'
  BY <1>1, <1>3, <1>5 DEF CurrentIsLive, Processes, Live
<1> QED
  BY <1>3, <1>5, <1>6, <1>7, <1>8, NothingMoves DEF IInv

(* The tail of handleDeviceInt takes a process off the mutex, or none.     *)
LEMMA releaseDeviceStep == ASSUME IInv, releaseDevice PROVE IInv'
<1> DEFINE d == Head(kcall).dev
           h == Head(s_procq[mut(d)])
<1>1. TypeOK /\ Queues /\ Running("releaseDevice") /\ OffSemaphore
      /\ TerminationEndsInScheduler /\ CurrentIsLive
  BY InvariantQueues DEF IInv, releaseDevice
<1>2. d \in Dev /\ mut(d) \in SemAddr
  BY <1>1, RunningFrame, FrameArguments, SemAddrTypes
<1>3. UNCHANGED <<pcbFree_h, p_parent, p_child, g_process_count, g_ready_queue, device, p_s,
                  g_soft_block_count, g_current_process, g_old_state, cpu>>
  BY DEF releaseDevice, procVars
<1>4. CASE s_procq[mut(d)] # <<>>
  <2>1. /\ removeBlocked(mut(d))
        /\ kcall' = <<CallBeginIO(d, h)>> \o Tail(kcall)
        /\ UNCHANGED <<waiting_process, semaphore>>
    BY <1>4 DEF releaseDevice, passTheBaton, leaveDevice
  <2>2. /\ s_procq' \in [SemAddr -> Seq(Pcb)]
        /\ p_semAdd' \in [Pcb -> SemAddr \cup {NULL}]
        /\ h \in Blocked /\ Blocked' = Blocked \ {h}
        /\ Queues'
    BY <1>1, <1>2, <1>4, <2>1, RemoveBlockedQueues
  <2>3. p_semAdd' = [p_semAdd EXCEPT ![h] = NULL]
    BY <2>1 DEF removeBlocked
  <2> HIDE DEF d, h
  <2>4. h \in Pcb /\ CallBeginIO(d, h) \in Frame /\ CallBeginIO(d, h).fn = "beginIO"
    BY <1>2, <2>2, FrameTypes DEF Blocked, CallBeginIO
  <2>5. /\ kcall' \in Seq(Frame)
        /\ ToSet(kcall') \subseteq ToSet(kcall) \cup {CallBeginIO(d, h)}
        /\ EndsInScheduler => EndsInScheduler'
        /\ TerminationEndsInScheduler'
    BY <1>1, <2>1, <2>4, CallKeepsStack
  <2>6. TypeOK'
    BY <1>1, <1>3, <2>1, <2>2, <2>5 DEF TypeOK
  <2>7. OffSemaphore'
    <3>1. \A p \in Pcb : p_semAdd'[p] \in {p_semAdd[p], NULL}
      BY <1>1, <2>3 DEF TypeOK
    <3>2. CallBeginIO(d, h).fn # "terminateChildren"
      BY <2>4
    <3> QED
      BY <1>1, <2>5, <3>1, <3>2, OffSemaphoreKept
  <2>8. CurrentIsLive'
    BY <1>1, <1>3, <2>5 DEF CurrentIsLive, Processes, Live
  <2>9. ListsExclusive'
    BY <1>3, <2>2 DEF IInv, ListsExclusive, Queues, Ready
  <2> QED
    BY <2>2, <2>5, <2>6, <2>7, <2>8, <2>9 DEF IInv, Queues
<1>5. CASE s_procq[mut(d)] = <<>>
  <2>1. /\ waiting_process' = [waiting_process EXCEPT ![d] = NULL]
        /\ semaphore' = [semaphore EXCEPT ![mut(d)] = semaphore[mut(d)] + 1]
        /\ Return
        /\ UNCHANGED <<s_procq, p_semAdd>>
    BY <1>5 DEF releaseDevice, passTheBaton, leaveDevice
  <2>2. /\ kcall' \in Seq(Frame) /\ ToSet(kcall') \subseteq ToSet(kcall)
        /\ EndsInScheduler => EndsInScheduler'
        /\ TerminationEndsInScheduler'
    BY <1>1, <2>1, ReturnKeepsStack
  <2> HIDE DEF d
  <2>3. TypeOK'
    BY <1>1, <1>2, <1>3, <2>1, <2>2 DEF TypeOK
  <2>4. OffSemaphore'
    BY <1>1, <2>1, <2>2 DEF OffSemaphore
  <2>5. CurrentIsLive'
    BY <1>1, <1>3, <2>2 DEF CurrentIsLive, Processes, Live
  <2> QED
    BY <1>3, <2>1, <2>2, <2>3, <2>4, <2>5, NothingMoves DEF IInv
<1> QED
  BY <1>4, <1>5

(* terminateProcess takes the process off its semaphore.                   *)
LEMMA terminateProcessStep == ASSUME IInv, terminateProcess PROVE IInv'
<1> DEFINE p == Head(kcall).pcb
           s == p_semAdd[p]
<1>1. TypeOK /\ Queues /\ Running("terminateProcess") /\ OffSemaphore
      /\ TerminationEndsInScheduler /\ CurrentIsLive
  BY InvariantQueues DEF IInv, terminateProcess
<1>2. /\ p \in Pcb /\ CallTerminateChildren(p) \in Frame /\ EndsInScheduler
      /\ CallTerminateChildren(p).fn = "terminateChildren" /\ CallTerminateChildren(p).pcb = p
  BY <1>1, RunningFrame, FrameArguments, FrameTypes
     DEF TerminationEndsInScheduler, CallTerminateChildren
<1>3. s \in SemAddr \cup {NULL}
  BY <1>1, <1>2 DEF TypeOK
<1>4. /\ kcall' = <<CallTerminateChildren(p)>> \o Tail(kcall)
      /\ UNCHANGED <<pcbFree_h, p_parent, p_child, g_process_count, g_ready_queue,
                     waiting_process, device, p_s, g_current_process, g_old_state, cpu>>
  BY DEF terminateProcess, procVars, ioVars
<1>5. IF s = NULL
      THEN UNCHANGED <<s_procq, p_semAdd>>
      ELSE /\ s_procq' = [s_procq EXCEPT ![s] = RemoveFirst(s_procq[s], p)]
           /\ p_semAdd' = [p_semAdd EXCEPT ![p] = NULL]
  BY DEF terminateProcess, outBlocked
<1>6. g_soft_block_count' \in Int /\ semaphore' \in [SemAddr -> Int]
  <2>1. \/ UNCHANGED <<g_soft_block_count, semaphore>>
        \/ /\ g_soft_block_count' = g_soft_block_count - 1
           /\ semaphore' = [semaphore EXCEPT ![sync(s[2])] = -1]
    BY DEF terminateProcess, isDeviceSemaphore, resolveSemAddr
  <2> QED
    BY <1>1, <2>1 DEF TypeOK
<1> HIDE DEF p, s
<1>7. /\ kcall' \in Seq(Frame)
      /\ ToSet(kcall') \subseteq ToSet(kcall) \cup {CallTerminateChildren(p)}
      /\ EndsInScheduler'
      /\ TerminationEndsInScheduler'
  BY <1>1, <1>2, <1>4, CallKeepsStack
<1>8. /\ s_procq' \in [SemAddr -> Seq(Pcb)]
      /\ p_semAdd' = [p_semAdd EXCEPT ![p] = NULL]
      /\ Queues'
  <2>1. CASE s = NULL
    <3>1. UNCHANGED <<s_procq, p_semAdd>>
      BY <1>5, <2>1
    <3>2. p_semAdd' = [p_semAdd EXCEPT ![p] = NULL]
      BY <1>1, <1>2, <2>1, <3>1 DEF TypeOK, s
    <3> QED
      BY <1>1, <3>1, <3>2 DEF TypeOK, Queues, SemAddMatchesQueue
  <2>2. CASE s # NULL
    <3>1. /\ s \in SemAddr
          /\ s_procq' = [s_procq EXCEPT ![s] = RemoveFirst(s_procq[s], p)]
          /\ p_semAdd' = [p_semAdd EXCEPT ![p] = NULL]
      BY <1>3, <1>5, <2>2
    <3>2. s_procq \in [SemAddr -> Seq(Pcb)] /\ p_semAdd \in [Pcb -> SemAddr \cup {NULL}]
      BY <1>1 DEF TypeOK
    <3>3. IsInjective(s_procq[s])
      BY <1>1, <3>1 DEF Queues
    <3>4. /\ RemoveFirst(s_procq[s], p) \in Seq(Pcb)
          /\ IsInjective(RemoveFirst(s_procq[s], p))
          /\ ToSet(RemoveFirst(s_procq[s], p)) = ToSet(s_procq[s]) \ {p}
      BY <3>1, <3>2, <3>3, RemoveFirstQueue
    <3>5. s_procq' \in [SemAddr -> Seq(Pcb)]
      BY <3>1, <3>2, <3>4
    <3>6. \A x \in SemAddr : IsInjective(s_procq'[x])
      BY <1>1, <3>1, <3>2, <3>4 DEF Queues
    <3>7. SemAddMatchesQueue'
      <4> SUFFICES ASSUME NEW r \in Pcb, NEW x \in SemAddr
                   PROVE  p_semAdd'[r] = x <=> r \in ToSet(s_procq'[x])
        BY DEF SemAddMatchesQueue
      <4>1. p_semAdd[r] = x <=> r \in ToSet(s_procq[x])
        BY <1>1 DEF Queues, SemAddMatchesQueue
      <4>2. CASE x = s
        BY <4>1, <4>2, <1>2, <3>1, <3>2, <3>4, NullAssumption
      <4>3. CASE x # s
        BY <4>1, <4>3, <1>2, <3>1, <3>2, NullAssumption DEF s
      <4> QED
        BY <4>2, <4>3
    <3> QED
      BY <3>1, <3>5, <3>6, <3>7 DEF Queues
  <2> QED
    BY <2>1, <2>2
<1>9. TypeOK'
  BY <1>1, <1>2, <1>4, <1>6, <1>7, <1>8 DEF TypeOK
<1>10. OffSemaphore'
  <2> SUFFICES ASSUME NEW f \in ToSet(kcall'), f.fn = "terminateChildren"
               PROVE  p_semAdd'[f.pcb] = NULL
    BY DEF OffSemaphore
  <2>1. f \in Frame
    BY <1>7 DEF ToSet
  <2>2. f.pcb \in Pcb
    BY <2>1, FrameArguments
  <2>3. f = CallTerminateChildren(p) \/ p_semAdd[f.pcb] = NULL
    BY <1>1, <1>7 DEF OffSemaphore
  <2> QED
    BY <1>1, <1>2, <1>8, <2>2, <2>3 DEF TypeOK
<1>11. CurrentIsLive'
  BY <1>1, <1>4, <1>7 DEF CurrentIsLive, Running
<1>12. Blocked' \subseteq Blocked
  BY <1>1, <1>2, <1>8 DEF Blocked, TypeOK
<1>13. ListsExclusive'
  BY <1>4, <1>8, <1>12 DEF IInv, ListsExclusive, Queues, Ready
<1> QED
  BY <1>7, <1>8, <1>9, <1>10, <1>11, <1>13 DEF IInv, Queues

(* A child leaves the tree, or the PCB goes to the free list.              *)
LEMMA terminateChildrenStep == ASSUME IInv, terminateChildren PROVE IInv'
<1> DEFINE p == Head(kcall).pcb
<1>1. TypeOK /\ Queues /\ Running("terminateChildren") /\ OffSemaphore
      /\ TerminationEndsInScheduler /\ CurrentIsLive
  BY InvariantQueues DEF IInv, terminateChildren
<1>2. p \in Pcb /\ EndsInScheduler /\ p_semAdd[p] = NULL
  BY <1>1, RunningFrame, FrameArguments DEF TerminationEndsInScheduler, OffSemaphore
<1>3. UNCHANGED <<p_parent, s_procq, p_semAdd, waiting_process, device, p_s, semaphore,
                  g_soft_block_count, g_current_process, g_old_state, cpu>>
  BY DEF terminateChildren, ioVars
<1>4. ASSUME NEW c \in p_child[p],
             p_child' = [p_child EXCEPT ![p] = @ \ {c}],
             kcall' = <<CallTerminateProcess(c)>> \o kcall,
             UNCHANGED <<pcbFree_h, g_ready_queue, g_process_count>>
      PROVE  IInv'
  <2> HIDE DEF p
  <2>1. /\ c \in Pcb /\ CallTerminateProcess(c) \in Frame
        /\ CallTerminateProcess(c).fn = "terminateProcess"
    BY <1>1, <1>2, <1>4, FrameTypes DEF TypeOK, CallTerminateProcess
  <2>2. /\ kcall' \in Seq(Frame)
        /\ ToSet(kcall') \subseteq ToSet(kcall) \cup {CallTerminateProcess(c)}
        /\ EndsInScheduler'
        /\ TerminationEndsInScheduler'
    BY <1>1, <1>2, <1>4, <2>1, CallKeepsStack
  <2>3. TypeOK'
    BY <1>1, <1>2, <1>3, <1>4, <2>2 DEF TypeOK
  <2>4. OffSemaphore'
    <3>1. \A r \in Pcb : p_semAdd'[r] \in {p_semAdd[r], NULL}
      BY <1>3
    <3>2. CallTerminateProcess(c).fn # "terminateChildren"
      BY <2>1
    <3> QED
      BY <1>1, <2>2, <3>1, <3>2, OffSemaphoreKept
  <2>5. CurrentIsLive'
    BY <1>1, <1>3, <2>2 DEF CurrentIsLive, Running
  <2> QED
    BY <1>3, <1>4, <2>2, <2>3, <2>4, <2>5, NothingMoves DEF IInv
<1>5. ASSUME g_process_count' = g_process_count - 1,
             g_ready_queue' = RemoveFirst(g_ready_queue, p),
             pcbFree_h' = pcbFree_h \cup {p},
             Return,
             UNCHANGED p_child
      PROVE  IInv'
  <2> HIDE DEF p
  <2>1. /\ kcall' \in Seq(Frame) /\ ToSet(kcall') \subseteq ToSet(kcall)
        /\ EndsInScheduler'
        /\ TerminationEndsInScheduler'
    BY <1>1, <1>2, <1>5, ReturnKeepsStack
  <2>2. g_ready_queue \in Seq(Pcb) /\ IsInjective(g_ready_queue)
    BY <1>1 DEF TypeOK, IInv, ListsExclusive
  <2>3. /\ g_ready_queue' \in Seq(Pcb) /\ IsInjective(g_ready_queue')
        /\ Ready' = Ready \ {p}
    BY <1>5, <2>2, RemoveFirstQueue DEF Ready
  <2>4. TypeOK'
    BY <1>1, <1>2, <1>3, <1>5, <2>1, <2>3 DEF TypeOK
  <2>5. OffSemaphore'
    BY <1>1, <1>3, <2>1 DEF OffSemaphore
  <2>6. CurrentIsLive'
    BY <1>1, <1>3, <2>1 DEF CurrentIsLive, Running
  <2>7. p \notin Blocked /\ Blocked' = Blocked /\ SemAddMatchesQueue'
    BY <1>1, <1>2, <1>3 DEF Blocked, Queues, SemAddMatchesQueue
  <2>8. ListsExclusive'
    BY <1>3, <1>5, <2>3, <2>7 DEF IInv, ListsExclusive
  <2> QED
    BY <2>1, <2>4, <2>5, <2>6, <2>7, <2>8 DEF IInv
<1> QED
  BY <1>4, <1>5 DEF terminateChildren, terminateNext, terminated, freePcb

-----------------------------------------------------------------------------
(* The scheduler *)

(* Where a saved state may resume.                                         *)
LEMMA ContextTypes ==
  /\ NoContext \in Context
  /\ \A c \in Context : c.at \in Interruptible
  /\ Interruptible \subseteq Cpu
  /\ \A a \in Interruptible : Resume(a) \in Interruptible
  /\ "kernel" \notin Interruptible
  BY DEF NoContext, Context, Interruptible, Cpu, IdlePoint, Stopped, Resume

(* The head of the ready queue becomes the current process.                *)
LEMMA dispatchStep == ASSUME IInv, dispatch PROVE IInv'
<1> DEFINE p == Head(g_ready_queue)
<1>1. TypeOK /\ Queues /\ ListsExclusive
  BY InvariantQueues DEF IInv
<1>2. /\ g_current_process' = p /\ cpu' = p_s[p].at
      /\ p_s' = IF p_s[p].at = "user" THEN [p_s EXCEPT ![p] = NoContext] ELSE p_s
      /\ g_ready_queue' = Tail(g_ready_queue)
      /\ g_ready_queue # <<>>
      /\ kcall' = <<>> /\ g_old_state' = NoContext
      /\ UNCHANGED <<pcbFree_h, p_parent, p_child, g_process_count, s_procq, p_semAdd,
                     waiting_process, device, semaphore, g_soft_block_count>>
  BY DEF dispatch, schedUnchanged, procVars, ioVars
<1>3. g_ready_queue \in Seq(Pcb) /\ IsInjective(g_ready_queue)
  BY <1>1 DEF TypeOK, ListsExclusive
<1>4. /\ p \in Pcb /\ p \in Ready
      /\ g_ready_queue' \in Seq(Pcb) /\ IsInjective(g_ready_queue')
      /\ Ready = Ready' \cup {p} /\ p \notin Ready'
  BY <1>2, <1>3, TailQueue DEF Ready
<1> HIDE DEF p
<1>5. p_s[p].at \in Interruptible
  BY <1>1, <1>4, ContextTypes DEF TypeOK
<1>6. kcall' \in Seq(Frame) /\ OffSemaphore' /\ TerminationEndsInScheduler'
  BY <1>2, EmptyStack
<1>7. TypeOK'
  BY <1>1, <1>2, <1>4, <1>5, <1>6, ContextTypes DEF TypeOK
<1>8. Blocked' = Blocked /\ SemAddMatchesQueue'
  BY <1>1, <1>2 DEF Blocked, Queues, SemAddMatchesQueue
<1>9. ListsExclusive'
  BY <1>1, <1>2, <1>4, <1>8 DEF ListsExclusive
<1>10. CurrentIsLive'
  <2>1. p \in Live' /\ cpu' # "kernel"
    BY <1>1, <1>2, <1>4, <1>5, ContextTypes DEF ListsExclusive, Live
  <2>2. p_s[p].at = "user" => p_s'[p].at = "user"
    BY <1>1, <1>2, <1>4 DEF TypeOK, NoContext
  <2> QED
    BY <1>2, <2>1, <2>2 DEF CurrentIsLive, Processes
<1> QED
  BY <1>6, <1>7, <1>8, <1>9, <1>10 DEF IInv

(* The scheduler with an empty ready queue moves no process.               *)
LEMMA idleStep == ASSUME IInv, idle PROVE IInv'
<1>1. /\ cpu' \in {"halt", "enabled", "panic", "spin"}
      /\ kcall' = <<>> /\ g_old_state' = NoContext
      /\ UNCHANGED <<pcbFree_h, p_parent, p_child, g_process_count, s_procq, p_semAdd,
                     waiting_process, device, semaphore, g_soft_block_count,
                     g_ready_queue, g_current_process, p_s>>
  BY DEF idle, schedUnchanged, procVars, ioVars
<1>2. kcall' \in Seq(Frame) /\ OffSemaphore' /\ TerminationEndsInScheduler'
  BY <1>1, EmptyStack
<1>3. cpu' \in Cpu /\ cpu' \notin {"user", "kernel"}
  BY <1>1 DEF Cpu, IdlePoint, Stopped
<1>4. TypeOK'
  BY <1>1, <1>2, <1>3, ContextTypes DEF IInv, TypeOK
<1>5. CurrentIsLive'
  BY <1>3 DEF CurrentIsLive
<1> QED
  BY <1>1, <1>2, <1>4, <1>5, NothingMoves DEF IInv

(* The steps of the idle loop and the return from an exception.            *)
LEMMA recheckStep == ASSUME IInv, recheck PROVE IInv'
<1>1. /\ UNCHANGED <<pcbFree_h, p_parent, p_child, g_process_count, s_procq, p_semAdd,
                     waiting_process, device, semaphore, g_soft_block_count,
                     g_ready_queue, g_current_process, p_s, g_old_state>>
      /\ \/ cpu' = "kernel" /\ kcall' = <<CallScheduler>>
         \/ cpu' = "checked" /\ kcall' = kcall
  BY DEF recheck, schedUnchanged, procVars, ioVars
<1>2. CASE cpu' = "kernel" /\ kcall' = <<CallScheduler>>
  <2>1. kcall' \in Seq(Frame) /\ EndsInScheduler' /\ OffSemaphore' /\ TerminationEndsInScheduler'
    BY <1>2, NewStack, FrameTypes
  <2>2. TypeOK'
    BY <1>1, <1>2, <2>1 DEF IInv, TypeOK, Cpu
  <2>3. CurrentIsLive'
    BY <1>2, <2>1 DEF CurrentIsLive
  <2> QED
    BY <1>1, <2>1, <2>2, <2>3, NothingMoves DEF IInv
<1>3. CASE cpu' = "checked" /\ kcall' = kcall
  <2>1. TypeOK'
    BY <1>1, <1>3 DEF IInv, TypeOK, Cpu, IdlePoint
  <2>2. OffSemaphore' /\ TerminationEndsInScheduler' /\ CurrentIsLive'
    BY <1>1, <1>3 DEF IInv, OffSemaphore, TerminationEndsInScheduler, CurrentIsLive, EndsInScheduler
  <2> QED
    BY <1>1, <2>1, <2>2, NothingMoves DEF IInv
<1> QED
  BY <1>1, <1>2, <1>3

(* WAIT only moves the processor.                                          *)
LEMMA WAITStep == ASSUME IInv, WAIT PROVE IInv'
<1>1. /\ UNCHANGED <<pcbFree_h, p_parent, p_child, g_process_count, s_procq, p_semAdd,
                     waiting_process, device, semaphore, g_soft_block_count,
                     g_ready_queue, g_current_process, p_s, g_old_state, kcall>>
      /\ cpu' = "waiting"
  BY DEF WAIT, schedUnchanged, procVars, ioVars
<1>2. TypeOK'
  BY <1>1 DEF IInv, TypeOK, Cpu, IdlePoint
<1>3. OffSemaphore' /\ TerminationEndsInScheduler' /\ CurrentIsLive'
  BY <1>1 DEF IInv, OffSemaphore, TerminationEndsInScheduler, CurrentIsLive, EndsInScheduler
<1> QED
  BY <1>1, <1>2, <1>3, NothingMoves DEF IInv

(* After WAIT the scheduler starts again.                                  *)
LEMMA wakeUpStep == ASSUME IInv, wakeUp PROVE IInv'
<1>1. /\ UNCHANGED <<pcbFree_h, p_parent, p_child, g_process_count, s_procq, p_semAdd,
                     waiting_process, device, semaphore, g_soft_block_count,
                     g_ready_queue, g_current_process, p_s, g_old_state>>
      /\ cpu' = "kernel" /\ kcall' = <<CallScheduler>>
  BY DEF wakeUp, schedUnchanged, procVars, ioVars
<1>2. kcall' \in Seq(Frame) /\ EndsInScheduler' /\ OffSemaphore' /\ TerminationEndsInScheduler'
  BY <1>1, NewStack, FrameTypes
<1>3. TypeOK'
  BY <1>1, <1>2 DEF IInv, TypeOK, Cpu
<1>4. CurrentIsLive'
  BY <1>1, <1>2 DEF CurrentIsLive
<1> QED
  BY <1>1, <1>2, <1>3, <1>4, NothingMoves DEF IInv

(* The return from an exception finds a process that is there.             *)
LEMMA LDSTStep == ASSUME IInv, LDST PROVE IInv'
<1>1. /\ UNCHANGED <<pcbFree_h, p_parent, p_child, g_process_count, s_procq, p_semAdd,
                     waiting_process, device, semaphore, g_soft_block_count,
                     g_ready_queue, g_current_process, p_s, kcall>>
      /\ cpu = "kernel" /\ kcall = <<>>
      /\ cpu' = Resume(g_old_state.at) /\ g_old_state' = NoContext
  BY DEF LDST, schedUnchanged, procVars, ioVars
<1>2. cpu' \in Interruptible
  BY <1>1, ContextTypes DEF IInv, TypeOK
<1>3. TypeOK'
  BY <1>1, <1>2, ContextTypes DEF IInv, TypeOK
<1>4. OffSemaphore' /\ TerminationEndsInScheduler'
  BY <1>1, EmptyStack
<1>5. CurrentIsLive'
  <2>1. cpu' = "user" => g_old_state.at = "user"
    BY <1>1 DEF Resume
  <2>2. ~ EndsInScheduler
    BY <1>1 DEF EndsInScheduler
  <2>3. cpu' # "kernel"
    BY <1>2, ContextTypes
  <2> QED
    BY <1>1, <2>1, <2>2, <2>3 DEF IInv, CurrentIsLive, Processes, Live
<1> QED
  BY <1>1, <1>3, <1>4, <1>5, NothingMoves DEF IInv

-----------------------------------------------------------------------------
(* System calls *)

(* A process that runs has a PCB that is not free.                         *)
LEMMA UserIsLive ==
  ASSUME IInv, cpu = "user"
  PROVE  /\ g_current_process \in Pcb /\ g_current_process \notin pcbFree_h
         /\ g_current_process \in Processes
  BY DEF IInv, CurrentIsLive, Processes, Live

(* A system call that goes on in the kernel.                               *)
LEMMA SyscallStep ==
  ASSUME IInv, NEW name \in {"none", "PASSEREN", "VERHOGEN", "DOIO", "CLOCKWAIT"},
         NEW frames, Syscall(name, frames),
         kcall' \in Seq(Frame), OffSemaphore', TerminationEndsInScheduler',
         p_child' \in [Pcb -> SUBSET Pcb], g_soft_block_count' \in Int
  PROVE  IInv'
<1>1. /\ UNCHANGED <<s_procq, p_semAdd, g_ready_queue, waiting_process, device, p_s, semaphore,
                     g_current_process, pcbFree_h, p_parent, g_process_count>>
      /\ cpu = "user" /\ cpu' = "kernel"
      /\ g_old_state' = [NoContext EXCEPT !.call = name]
  BY DEF Syscall, queueVars, ioVars
<1>2. g_old_state' \in Context
  BY <1>1 DEF NoContext, Context, Interruptible
<1>3. TypeOK'
  BY <1>1, <1>2 DEF IInv, TypeOK, Cpu
<1>4. CurrentIsLive'
  BY <1>1, UserIsLive DEF CurrentIsLive, Processes, Live
<1> QED
  BY <1>1, <1>3, <1>4, NothingMoves DEF IInv

(* A free PCB goes to the ready queue.                                     *)
LEMMA sysCreateProcessStep == ASSUME IInv, sysCreateProcess PROVE IInv'
<1>1. TypeOK /\ Queues /\ ListsExclusive /\ OffSemaphore /\ TerminationEndsInScheduler
  BY InvariantQueues DEF IInv
<1>2. PICK p \in pcbFree_h :
        /\ pcbFree_h' = pcbFree_h \ {p}
        /\ p_semAdd' = [p_semAdd EXCEPT ![p] = NULL]
        /\ p_s' = [p_s EXCEPT ![p] = NoContext]
        /\ p_parent' = [p_parent EXCEPT ![p] = g_current_process]
        /\ p_child' = [[p_child EXCEPT ![p] = {}]
                        EXCEPT ![g_current_process] = @ \cup {p}]
        /\ g_ready_queue' = Append(g_ready_queue, p)
  BY DEF sysCreateProcess, allocPcb, insertChild
<1>3. /\ UNCHANGED <<s_procq, waiting_process, device, semaphore, g_soft_block_count,
                     g_current_process, g_old_state, cpu, kcall>>
      /\ g_process_count' = g_process_count + 1
      /\ cpu = "user"
  BY DEF sysCreateProcess, ioVars
<1>4. /\ p \in Pcb /\ p \notin Ready /\ p \notin Blocked /\ p_semAdd[p] = NULL
      /\ p # g_current_process /\ g_current_process \in Pcb \ pcbFree_h
  BY <1>1, <1>3, UserIsLive DEF TypeOK, ListsExclusive, Blocked
<1>5. p_semAdd' = p_semAdd
  BY <1>1, <1>2, <1>4 DEF TypeOK
<1>6. /\ g_ready_queue' \in Seq(Pcb) /\ IsInjective(g_ready_queue')
      /\ Ready' = Ready \cup {p}
  BY <1>1, <1>2, <1>4, AppendQueue DEF TypeOK, ListsExclusive, Ready
<1>7. p_child' \in [Pcb -> SUBSET Pcb]
  BY <1>1, <1>2, <1>4 DEF TypeOK
<1>8. TypeOK'
  BY <1>1, <1>2, <1>3, <1>4, <1>5, <1>6, <1>7, ContextTypes DEF TypeOK
<1>9. Blocked' = Blocked /\ SemAddMatchesQueue'
  BY <1>1, <1>3, <1>5 DEF Blocked, Queues, SemAddMatchesQueue
<1>10. ListsExclusive'
  BY <1>1, <1>2, <1>3, <1>4, <1>6, <1>9 DEF ListsExclusive
<1>11. OffSemaphore' /\ TerminationEndsInScheduler'
  BY <1>1, <1>3, <1>5 DEF OffSemaphore, TerminationEndsInScheduler, EndsInScheduler
<1>12. CurrentIsLive'
  <2>1. p_s'[g_current_process] = p_s[g_current_process]
    BY <1>1, <1>2, <1>4 DEF TypeOK
  <2> QED
    BY <1>2, <1>3, <1>4, <2>1, UserIsLive DEF CurrentIsLive, Processes, Live
<1> QED
  BY <1>8, <1>9, <1>10, <1>11, <1>12 DEF IInv

(* SYS2 puts the termination and the scheduler on the stack.               *)
LEMMA sysTerminateProcessStep ==
  ASSUME IInv, NEW p \in Pcb, sysTerminateProcess(p)
  PROVE  IInv'
<1>1. /\ Syscall("none", <<CallTerminateProcess(p), CallScheduler>>)
      /\ kcall' = <<CallTerminateProcess(p), CallScheduler>>
      /\ UNCHANGED g_soft_block_count
  BY DEF sysTerminateProcess, Syscall
<1>2. /\ kcall' \in Seq(Frame) /\ EndsInScheduler'
      /\ ToSet(kcall') = {CallTerminateProcess(p), CallScheduler}
  BY <1>1, NewStackOfTwo, FrameTypes
<1>3. OffSemaphore' /\ TerminationEndsInScheduler'
  BY <1>2 DEF OffSemaphore, TerminationEndsInScheduler, CallTerminateProcess, CallScheduler
<1>4. p_child' \in [Pcb -> SUBSET Pcb] /\ g_soft_block_count' \in Int
  BY <1>1 DEF IInv, TypeOK, sysTerminateProcess, outChild
<1> QED
  BY <1>1, <1>2, <1>3, <1>4, SyscallStep

(* SYS2 on any process that is not free.                                   *)
LEMMA SYSCALL_TERMPROCESSStep == ASSUME IInv, SYSCALL_TERMPROCESS PROVE IInv'
  BY sysTerminateProcessStep DEF SYSCALL_TERMPROCESS, Ended, IInv, TypeOK

(* A trap terminates the current process.                                  *)
LEMMA passUpOrDieStep == ASSUME IInv, passUpOrDie PROVE IInv'
  BY UserIsLive, sysTerminateProcessStep DEF passUpOrDie

(* A call of a semaphore operation.                                        *)
LEMMA SemaphoreCall ==
  ASSUME IInv, NEW name \in {"PASSEREN", "VERHOGEN", "CLOCKWAIT"}, NEW f \in Frame,
         f.fn \in {"sysPasseren", "sysVerhogen"}, Syscall(name, <<f>>),
         UNCHANGED p_child, g_soft_block_count' \in Int
  PROVE  IInv'
<1>1. kcall' = <<f>>
  BY DEF Syscall
<1>2. kcall' \in Seq(Frame) /\ ToSet(kcall') = {f}
  BY <1>1, NewStack
<1>3. OffSemaphore' /\ TerminationEndsInScheduler'
  BY <1>2 DEF OffSemaphore, TerminationEndsInScheduler
<1>4. p_child' \in [Pcb -> SUBSET Pcb]
  BY DEF IInv, TypeOK
<1> QED
  BY <1>2, <1>3, <1>4, SyscallStep

(* SYS3 calls P on a semaphore of the programs.                            *)
LEMMA SYSCALL_PASSERENStep == ASSUME IInv, SYSCALL_PASSEREN PROVE IInv'
<1>1. PICK s \in {"user"} \X Sem : Syscall("PASSEREN", <<CallPasseren(s)>>)
  BY DEF SYSCALL_PASSEREN
<1>2. CallPasseren(s) \in Frame /\ CallPasseren(s).fn = "sysPasseren"
  BY FrameTypes, SemAddrTypes DEF CallPasseren
<1>3. UNCHANGED p_child /\ g_soft_block_count' \in Int
  BY DEF IInv, TypeOK, SYSCALL_PASSEREN
<1> QED
  BY <1>1, <1>2, <1>3, SemaphoreCall

(* SYS4 calls V on a semaphore of the programs.                            *)
LEMMA SYSCALL_VERHOGENStep == ASSUME IInv, SYSCALL_VERHOGEN PROVE IInv'
<1>1. PICK s \in {"user"} \X Sem : Syscall("VERHOGEN", <<CallVerhogen(s)>>)
  BY DEF SYSCALL_VERHOGEN
<1>2. CallVerhogen(s) \in Frame /\ CallVerhogen(s).fn = "sysVerhogen"
  BY FrameTypes, SemAddrTypes DEF CallVerhogen
<1>3. UNCHANGED p_child /\ g_soft_block_count' \in Int
  BY DEF IInv, TypeOK, SYSCALL_VERHOGEN
<1> QED
  BY <1>1, <1>2, <1>3, SemaphoreCall

(* SYS7 calls P on the pseudo-clock.                                       *)
LEMMA sysClockWaitStep == ASSUME IInv, sysClockWait PROVE IInv'
<1>1. Syscall("CLOCKWAIT", <<CallPasseren(g_pseudo_clock)>>)
  BY DEF sysClockWait
<1>2. CallPasseren(g_pseudo_clock) \in Frame /\ CallPasseren(g_pseudo_clock).fn = "sysPasseren"
  BY FrameTypes, SemAddrTypes DEF CallPasseren
<1>3. UNCHANGED p_child /\ g_soft_block_count' \in Int
  BY DEF IInv, TypeOK, sysClockWait
<1> QED
  BY <1>1, <1>2, <1>3, SemaphoreCall

(* SYS5 calls P on the mutex of the device, then beginIO.                  *)
LEMMA sysDoIOStep == ASSUME IInv, sysDoIO PROVE IInv'
<1>1. PICK d \in Dev :
        Syscall("DOIO", <<CallPasseren(mut(d)), CallBeginIO(d, g_current_process)>>)
  BY DEF sysDoIO
<1>2. /\ kcall' = <<CallPasseren(mut(d)), CallBeginIO(d, g_current_process)>>
      /\ g_current_process \in Pcb
  BY <1>1, UserIsLive DEF Syscall
<1>3. CallPasseren(mut(d)) \in Frame /\ CallBeginIO(d, g_current_process) \in Frame
  BY <1>2, FrameTypes, SemAddrTypes
<1>4. /\ kcall' \in Seq(Frame)
      /\ ToSet(kcall') = {CallPasseren(mut(d)), CallBeginIO(d, g_current_process)}
  BY <1>2, <1>3, NewStackOfTwo
<1>5. OffSemaphore' /\ TerminationEndsInScheduler'
  BY <1>4 DEF OffSemaphore, TerminationEndsInScheduler, CallPasseren, CallBeginIO
<1>6. p_child' \in [Pcb -> SUBSET Pcb] /\ g_soft_block_count' \in Int
  BY DEF IInv, TypeOK, sysDoIO
<1> QED
  BY <1>1, <1>4, <1>5, <1>6, SyscallStep

(* SYS5 on an address without a device only stops the machine.             *)
LEMMA sysDoIOPanicStep == ASSUME IInv, sysDoIOPanic PROVE IInv'
<1>1. /\ UNCHANGED <<pcbFree_h, p_parent, p_child, g_process_count, s_procq, p_semAdd,
                     waiting_process, device, semaphore, g_soft_block_count,
                     g_ready_queue, g_current_process, p_s, g_old_state, kcall>>
      /\ cpu' = "panic"
  BY DEF sysDoIOPanic, procVars, ioVars, queueVars
<1>2. TypeOK'
  BY <1>1 DEF IInv, TypeOK, Cpu, Stopped
<1>3. OffSemaphore' /\ TerminationEndsInScheduler' /\ CurrentIsLive'
  BY <1>1 DEF IInv, OffSemaphore, TerminationEndsInScheduler, CurrentIsLive, EndsInScheduler
<1> QED
  BY <1>1, <1>2, <1>3, NothingMoves DEF IInv

-----------------------------------------------------------------------------
(* Interrupts *)

(* The end of the time slice moves the current process to the ready queue. *)
LEMMA timerInUserStep == ASSUME IInv, timerInUser PROVE IInv'
<1> DEFINE p == g_current_process
           c == [NoContext EXCEPT !.call = "INT"]
<1>1. TypeOK /\ Queues /\ ListsExclusive
  BY InvariantQueues DEF IInv
<1>2. /\ cpu = "user" /\ cpu' = "kernel"
      /\ p_s' = [p_s EXCEPT ![p] = c]
      /\ g_ready_queue' = Append(g_ready_queue, p)
      /\ g_current_process' = NULL
      /\ kcall' = <<CallScheduler>>
      /\ g_old_state' = c
      /\ UNCHANGED <<pcbFree_h, p_parent, p_child, g_process_count, s_procq, p_semAdd,
                     waiting_process, device, semaphore, g_soft_block_count>>
  BY DEF timerInUser, schedUnchanged, procVars, ioVars
<1>3. p \in Pcb /\ p \notin pcbFree_h /\ p \notin Ready /\ p \notin Blocked
  BY <1>1, <1>2, UserIsLive DEF ListsExclusive
<1>4. c \in Context
  BY DEF NoContext, Context, Interruptible
<1> HIDE DEF p, c
<1>5. /\ g_ready_queue' \in Seq(Pcb) /\ IsInjective(g_ready_queue')
      /\ Ready' = Ready \cup {p}
  BY <1>1, <1>2, <1>3, AppendQueue DEF TypeOK, ListsExclusive, Ready
<1>6. kcall' \in Seq(Frame) /\ EndsInScheduler' /\ OffSemaphore' /\ TerminationEndsInScheduler'
  BY <1>2, NewStack, FrameTypes
<1>7. TypeOK'
  BY <1>1, <1>2, <1>3, <1>4, <1>5, <1>6 DEF TypeOK, Cpu
<1>8. Blocked' = Blocked /\ SemAddMatchesQueue'
  BY <1>1, <1>2 DEF Blocked, Queues, SemAddMatchesQueue
<1>9. NULL \notin Ready' /\ NULL \notin Blocked'
  BY <1>5, NullAssumption DEF Ready, Blocked, ToSet
<1>10. ListsExclusive'
  BY <1>1, <1>2, <1>3, <1>5, <1>8, <1>9 DEF ListsExclusive
<1>11. CurrentIsLive'
  BY <1>2, <1>6 DEF CurrentIsLive
<1> QED
  BY <1>6, <1>7, <1>8, <1>10, <1>11 DEF IInv

(* In the idle loop it faults, or queues the PCB of the current process.   *)
LEMMA timerInIdleStep == ASSUME IInv, timerInIdle PROVE IInv'
<1>1. TypeOK /\ Queues /\ ListsExclusive
  BY InvariantQueues DEF IInv
<1>2. /\ cpu = "kernel" /\ g_ready_queue = <<>> /\ g_old_state' = idleLoop
      /\ UNCHANGED <<p_parent, p_child, g_process_count, s_procq, p_semAdd,
                     waiting_process, device, semaphore, g_soft_block_count>>
  BY DEF timerInIdle, ioVars, Running
<1>3. idleLoop \in Context
  BY DEF idleLoop, NoContext, Context, Interruptible, IdlePoint
<1>4. CASE timerWithoutCurrent
  <2>1. /\ cpu' = "timerfault" /\ kcall' = <<>>
        /\ UNCHANGED <<pcbFree_h, p_s, g_ready_queue, g_current_process>>
    BY <1>4 DEF timerWithoutCurrent
  <2>2. kcall' \in Seq(Frame) /\ OffSemaphore' /\ TerminationEndsInScheduler'
    BY <2>1, EmptyStack
  <2>3. TypeOK'
    BY <1>1, <1>2, <1>3, <2>1, <2>2 DEF TypeOK, Cpu, Stopped
  <2>4. CurrentIsLive'
    BY <2>1 DEF CurrentIsLive
  <2> QED
    BY <1>2, <2>1, <2>2, <2>3, <2>4, NothingMoves DEF IInv
<1>5. CASE timerRevives
  <2> DEFINE p == g_current_process
  <2>1. /\ p # NULL /\ p_s' = [p_s EXCEPT ![p] = idleLoop]
        /\ pcbFree_h' = pcbFree_h \ {p}
        /\ g_ready_queue' = <<p>> /\ g_current_process' = NULL
        /\ kcall' = <<CallScheduler>> /\ UNCHANGED cpu
    BY <1>5 DEF timerRevives
  <2>2. p \in Pcb /\ p \notin Blocked
    BY <1>1, <2>1 DEF TypeOK, ListsExclusive
  <2> HIDE DEF p
  <2>3. /\ g_ready_queue' \in Seq(Pcb) /\ IsInjective(g_ready_queue')
        /\ Ready' = {p}
    BY <2>1, <2>2 DEF Ready, ToSet, IsInjective
  <2>4. kcall' \in Seq(Frame) /\ EndsInScheduler' /\ OffSemaphore' /\ TerminationEndsInScheduler'
    BY <2>1, NewStack, FrameTypes
  <2>5. TypeOK'
    BY <1>1, <1>2, <1>3, <2>1, <2>2, <2>3, <2>4 DEF TypeOK
  <2>6. Blocked' = Blocked /\ SemAddMatchesQueue'
    BY <1>1, <1>2 DEF Blocked, Queues, SemAddMatchesQueue
  <2>7. NULL \notin Ready' /\ NULL \notin Blocked'
    BY <2>2, <2>3, NullAssumption DEF Blocked
  <2>8. ListsExclusive'
    BY <1>1, <1>2, <2>1, <2>2, <2>3, <2>6, <2>7 DEF ListsExclusive
  <2>9. CurrentIsLive'
    BY <1>2, <2>1, <2>4 DEF CurrentIsLive
  <2> QED
    BY <2>4, <2>5, <2>6, <2>8, <2>9 DEF IInv
<1> QED
  BY <1>4, <1>5 DEF timerInIdle

(* The tick moves the whole queue of the pseudo-clock to the ready queue.  *)
LEMMA handleSysTimerStep == ASSUME IInv, handleSysTimer PROVE IInv'
<1> DEFINE q == s_procq[g_pseudo_clock]
<1>1. /\ TypeOK /\ Queues /\ ListsExclusive /\ OffSemaphore
      /\ TerminationEndsInScheduler /\ CurrentIsLive
  BY InvariantQueues DEF IInv
<1>2. /\ cpu \in Interruptible /\ cpu' = Resume(cpu)
      /\ g_ready_queue' = g_ready_queue \o q
      /\ s_procq' = [s_procq EXCEPT ![g_pseudo_clock] = <<>>]
      /\ p_semAdd' = [p \in Pcb |-> IF p \in ToSet(q) THEN NULL ELSE p_semAdd[p]]
      /\ g_soft_block_count' = g_soft_block_count - Len(q)
      /\ semaphore' = [semaphore EXCEPT ![g_pseudo_clock] = 0]
      /\ UNCHANGED <<pcbFree_h, p_parent, p_child, g_process_count, waiting_process, device,
                     p_s, g_current_process, g_old_state, kcall>>
  BY DEF handleSysTimer, procVars, ioVars
<1>3. g_pseudo_clock \in SemAddr
  BY SemAddrTypes
<1>4. q \in Seq(Pcb) /\ IsInjective(q) /\ Len(q) \in Int
  BY <1>1, <1>3 DEF TypeOK, Queues
<1>5. \A p \in ToSet(q) : p \in Blocked /\ p_semAdd[p] = g_pseudo_clock
  BY <1>1, <1>3, QueuedIsBlocked
<1> HIDE DEF q
<1>6. /\ g_ready_queue' \in Seq(Pcb) /\ IsInjective(g_ready_queue')
      /\ Ready' = Ready \cup ToSet(q)
  <2>1. g_ready_queue \in Seq(Pcb) /\ IsInjective(g_ready_queue)
    BY <1>1 DEF TypeOK, ListsExclusive
  <2>2. ToSet(g_ready_queue) \cap ToSet(q) = {}
    BY <1>1, <1>5 DEF ListsExclusive, Ready
  <2> QED
    BY <1>2, <1>4, <2>1, <2>2, ConcatQueue DEF Ready
<1>7. /\ s_procq' \in [SemAddr -> Seq(Pcb)]
      /\ p_semAdd' \in [Pcb -> SemAddr \cup {NULL}]
      /\ Blocked' = Blocked \ ToSet(q)
  BY <1>1, <1>2, <1>3, EmptyQueue DEF TypeOK, Blocked
<1>8. cpu' \in Interruptible
  BY <1>2, ContextTypes
<1>9. TypeOK'
  <2>1. \A n \in Int : g_soft_block_count - n \in Int
    BY <1>1 DEF TypeOK
  <2>2. g_soft_block_count' \in Int
    BY <1>2, <1>4, <2>1
  <2>3. semaphore' \in [SemAddr -> Int]
    <3>1. semaphore' = [semaphore EXCEPT ![g_pseudo_clock] = 0]
      BY <1>2
    <3>2. semaphore \in [SemAddr -> Int]
      BY <1>1 DEF TypeOK
    <3>3. \A s \in SemAddr, z \in Int : [semaphore EXCEPT ![s] = z] \in [SemAddr -> Int]
      BY <3>2
    <3>4. 0 \in Int
      OBVIOUS
    <3> QED
      BY <1>3, <3>1, <3>3, <3>4, Zenon
  <2> QED
    BY <1>1, <1>2, <1>6, <1>7, <1>8, <2>2, <2>3, ContextTypes DEF TypeOK
<1>10. \A s \in SemAddr : IsInjective(s_procq'[s])
  BY <1>1, <1>2, <1>3, EmptyQueue DEF Queues, TypeOK
<1>11. SemAddMatchesQueue'
  <2> SUFFICES ASSUME NEW p \in Pcb, NEW s \in SemAddr
               PROVE  p_semAdd'[p] = s <=> p \in ToSet(s_procq'[s])
    BY DEF SemAddMatchesQueue
  <2>1. p_semAdd[p] = s <=> p \in ToSet(s_procq[s])
    BY <1>1 DEF Queues, SemAddMatchesQueue
  <2>2. CASE s = g_pseudo_clock
    <3>1. s_procq'[s] = <<>> /\ ToSet(s_procq[s]) = ToSet(q)
      BY <1>1, <1>2, <2>2 DEF TypeOK, q
    <3> QED
      BY <1>2, <2>1, <2>2, <3>1, EmptyQueue, NullAssumption
  <2>3. CASE s # g_pseudo_clock
    <3>1. s_procq'[s] = s_procq[s]
      BY <1>1, <1>2, <2>3 DEF TypeOK
    <3> QED
      BY <1>2, <1>5, <2>1, <2>3, <3>1, NullAssumption
  <2> QED
    BY <2>2, <2>3
<1>12. ListsExclusive'
  <2>1. ToSet(q) \cap pcbFree_h = {} /\ g_current_process \notin ToSet(q)
    BY <1>1, <1>5 DEF ListsExclusive
  <2> QED
    BY <1>1, <1>2, <1>6, <1>7, <1>10, <2>1 DEF ListsExclusive
<1>13. OffSemaphore'
  <2>1. ToSet(kcall') \subseteq ToSet(kcall) \cup {CallScheduler}
    BY <1>2
  <2>2. \A p \in Pcb : p_semAdd'[p] \in {p_semAdd[p], NULL}
    BY <1>2
  <2>3. CallScheduler.fn # "terminateChildren"
    BY DEF CallScheduler
  <2> QED
    BY <1>1, <2>1, <2>2, <2>3, OffSemaphoreKept
<1>14. TerminationEndsInScheduler'
  BY <1>1, <1>2 DEF TerminationEndsInScheduler, EndsInScheduler
<1>15. CurrentIsLive'
  <2>1. cpu' # "kernel" /\ (cpu' = "user" => cpu = "user")
    BY <1>2, <1>8, ContextTypes DEF Resume
  <2> QED
    BY <1>1, <1>2, <2>1 DEF CurrentIsLive, Processes, Live
<1> QED
  BY <1>9, <1>11, <1>12, <1>13, <1>14, <1>15 DEF IInv

(* A device interrupt ends the operation and leaves V and the release of   *)
(* the device to do.                                                       *)
LEMMA handleDeviceIntStep ==
  ASSUME IInv, NEW d \in Dev, handleDeviceInt(d)
  PROVE  IInv'
<1> DEFINE frames == <<CallVerhogen(sync(d)), CallReleaseDevice(d)>>
<1>1. TypeOK
  BY DEF IInv
<1>2. /\ cpu \in Interruptible /\ device[d] \in {"ok", "err"}
      /\ g_old_state' = [NoContext EXCEPT !.at = cpu, !.call = "INT"]
      /\ device' = [device EXCEPT ![d] = "idle"]
      /\ UNCHANGED <<pcbFree_h, p_parent, p_child, g_process_count, s_procq, p_semAdd,
                     g_ready_queue, waiting_process, semaphore, g_current_process>>
  BY DEF handleDeviceInt, procVars, queueVars
<1>3. /\ \/ cpu' = "fault" /\ kcall' = <<>>
         \/ cpu' = "kernel" /\ kcall' = frames
      /\ \/ UNCHANGED p_s
         \/ /\ waiting_process[d] # NULL
            /\ p_s' = [p_s EXCEPT ![waiting_process[d]].v0 = device[d]]
      /\ g_soft_block_count' \in {g_soft_block_count, g_soft_block_count - 1}
  BY DEF handleDeviceInt, endIO, setReturnValue
<1>4. g_old_state' \in Context /\ g_old_state'.at = cpu
  BY <1>2 DEF NoContext, Context
<1>5. p_s' \in [Pcb -> Context]
  <2>1. CASE UNCHANGED p_s
    BY <1>1, <2>1 DEF TypeOK
  <2>2. CASE /\ waiting_process[d] # NULL
             /\ p_s' = [p_s EXCEPT ![waiting_process[d]].v0 = device[d]]
    <3>1. waiting_process[d] \in Pcb /\ p_s \in [Pcb -> Context]
      BY <1>1, <2>2 DEF TypeOK
    <3>2. \A c \in Context : [c EXCEPT !.v0 = device[d]] \in Context
      BY <1>2 DEF Context
    <3> QED
      BY <2>2, <3>1, <3>2
  <2> QED
    BY <1>3, <2>1, <2>2
<1>6. device' \in [Dev -> {"idle", "busy", "ok", "err"}] /\ g_soft_block_count' \in Int
  BY <1>1, <1>2, <1>3 DEF TypeOK
<1>7. CASE cpu' = "fault" /\ kcall' = <<>>
  <2>1. kcall' \in Seq(Frame) /\ OffSemaphore' /\ TerminationEndsInScheduler'
    BY <1>7, EmptyStack
  <2>2. TypeOK'
    BY <1>1, <1>2, <1>4, <1>5, <1>6, <1>7, <2>1 DEF TypeOK, Cpu, Stopped
  <2>3. CurrentIsLive'
    BY <1>7 DEF CurrentIsLive
  <2> QED
    BY <1>2, <2>1, <2>2, <2>3, NothingMoves DEF IInv
<1>8. CASE cpu' = "kernel" /\ kcall' = frames
  <2>1. /\ kcall' \in Seq(Frame)
        /\ ToSet(kcall') = {CallVerhogen(sync(d)), CallReleaseDevice(d)}
    BY <1>8, FrameTypes, SemAddrTypes, NewStackOfTwo
  <2>2. OffSemaphore' /\ TerminationEndsInScheduler'
    BY <2>1 DEF OffSemaphore, TerminationEndsInScheduler, CallVerhogen, CallReleaseDevice
  <2>3. TypeOK'
    BY <1>1, <1>2, <1>4, <1>5, <1>6, <1>8, <2>1 DEF TypeOK, Cpu
  <2>4. CurrentIsLive'
    <3>1. \A p \in Pcb : p_s'[p].at = p_s[p].at
      <4>1. CASE UNCHANGED p_s
        BY <4>1
      <4>2. CASE /\ waiting_process[d] # NULL
                 /\ p_s' = [p_s EXCEPT ![waiting_process[d]].v0 = device[d]]
        <5>1. \A c \in Context : [c EXCEPT !.v0 = device[d]].at = c.at
          BY DEF Context
        <5>2. waiting_process[d] \in Pcb /\ p_s \in [Pcb -> Context]
          BY <1>1, <4>2 DEF TypeOK
        <5> QED
          BY <4>2, <5>1, <5>2
      <4> QED
        BY <1>3, <4>1, <4>2
    <3> QED
      BY <1>2, <1>4, <1>8, <3>1 DEF IInv, CurrentIsLive, Processes, Live
  <2> QED
    BY <1>2, <2>1, <2>2, <2>3, <2>4, NothingMoves DEF IInv
<1> QED
  BY <1>3, <1>7, <1>8

(* The end of an operation only changes the device.                        *)
LEMMA DeviceDoneStep == ASSUME IInv, NEW d \in Dev, DeviceDone(d) PROVE IInv'
<1>1. /\ UNCHANGED <<pcbFree_h, p_parent, p_child, g_process_count, s_procq, p_semAdd,
                     waiting_process, semaphore, g_soft_block_count, cpu,
                     g_ready_queue, g_current_process, p_s, g_old_state, kcall>>
      /\ device' \in {[device EXCEPT ![d] = r] : r \in {"ok", "err"}}
  BY DEF DeviceDone, procVars, queueVars
<1>2. TypeOK'
  BY <1>1 DEF IInv, TypeOK
<1>3. OffSemaphore' /\ TerminationEndsInScheduler' /\ CurrentIsLive'
  BY <1>1 DEF IInv, OffSemaphore, TerminationEndsInScheduler, CurrentIsLive, EndsInScheduler, Processes, Live
<1> QED
  BY <1>1, <1>2, <1>3, NothingMoves DEF IInv

(* A stuttering step, which is also what a stopped machine does.           *)
LEMMA StutterStep == ASSUME IInv, UNCHANGED vars PROVE IInv'
<1>1. UNCHANGED <<pcbFree_h, p_parent, p_child, g_process_count, s_procq, p_semAdd,
                  waiting_process, semaphore, g_soft_block_count, cpu, device,
                  g_ready_queue, g_current_process, p_s, g_old_state, kcall>>
  BY DEF vars, procVars, queueVars, ioVars
<1>2. TypeOK'
  BY <1>1 DEF IInv, TypeOK
<1>3. OffSemaphore' /\ TerminationEndsInScheduler' /\ CurrentIsLive'
  BY <1>1 DEF IInv, OffSemaphore, TerminationEndsInScheduler, CurrentIsLive, EndsInScheduler, Processes, Live
<1> QED
  BY <1>1, <1>2, <1>3, NothingMoves DEF IInv

-----------------------------------------------------------------------------
(* The invariant *)

(* The state in which main calls the scheduler satisfies it.               *)
LEMMA InitIInv == Init => IInv
<1> SUFFICES ASSUME Init PROVE IInv
  OBVIOUS
<1>1. PICK root \in Pcb :
        /\ pcbFree_h = Pcb \ {root}
        /\ p_parent = [p \in Pcb |-> NULL]
        /\ p_child = [p \in Pcb |-> {}]
        /\ p_semAdd = [p \in Pcb |-> NULL]
        /\ p_s = [p \in Pcb |-> NoContext]
        /\ s_procq = [s \in SemAddr |-> <<>>]
        /\ \E user \in [Sem -> {0, 1}] :
             semaphore = [s \in SemAddr |->
                            CASE s[1] = "user" -> user[s[2]]
                              [] s[1] = "sync" -> 0
                              [] OTHER         -> 1]
        /\ waiting_process = [d \in Dev |-> NULL]
        /\ g_process_count = 1
        /\ g_soft_block_count = 0
        /\ g_ready_queue = <<root>>
        /\ g_current_process = NULL
        /\ g_old_state = NoContext
        /\ cpu = "kernel"
        /\ kcall = <<CallScheduler>>
        /\ device = [d \in Dev |-> "idle"]
  BY DEF Init
<1>2. semaphore \in [SemAddr -> Int]
  <2>1. PICK user \in [Sem -> {0, 1}] :
          semaphore = [s \in SemAddr |->
                         CASE s[1] = "user" -> user[s[2]]
                           [] s[1] = "sync" -> 0
                           [] OTHER         -> 1]
    BY <1>1
  <2>2. \A s \in SemAddr : s[1] = "user" => s[2] \in Sem
    BY DEF SemAddr, g_pseudo_clock
  <2>3. \A s \in SemAddr : (CASE s[1] = "user" -> user[s[2]]
                              [] s[1] = "sync" -> 0
                              [] OTHER         -> 1) \in Int
    BY <2>2
  <2> QED
    BY <2>1, <2>3
<1>3. /\ kcall \in Seq(Frame) /\ kcall # <<>> /\ ToSet(kcall) = {CallScheduler}
      /\ kcall[Len(kcall)] = CallScheduler
  BY <1>1, FrameTypes, SingleFrame
<1>4. /\ g_ready_queue \in Seq(Pcb) /\ Ready = {root} /\ IsInjective(g_ready_queue)
  BY <1>1 DEF Ready, ToSet, IsInjective
<1>5. TypeOK
  BY <1>1, <1>2, <1>3, <1>4, ContextTypes, EmptyQueue DEF TypeOK, Cpu
<1>6. Blocked = {} /\ SemAddMatchesQueue
  BY <1>1, EmptyQueue, NullAssumption DEF Blocked, SemAddMatchesQueue
<1>7. ListsExclusive
  BY <1>1, <1>4, <1>6, EmptyQueue, NullAssumption DEF ListsExclusive
<1>8. OffSemaphore /\ TerminationEndsInScheduler /\ CurrentIsLive
  BY <1>1, <1>3 DEF OffSemaphore, TerminationEndsInScheduler, CurrentIsLive,
                    EndsInScheduler, CallScheduler
<1> QED
  BY <1>5, <1>6, <1>7, <1>8 DEF IInv

(* Every step of the kernel, the programs, the interrupts and the devices  *)
(* preserves it.                                                           *)
LEMMA NextIInv == IInv /\ [Next]_vars => IInv'
<1> SUFFICES ASSUME IInv, [Next]_vars PROVE IInv'
  OBVIOUS
<1>1. CASE KernelStep
  BY <1>1, sysPasserenStep, sysVerhogenStep, beginIOStep, releaseDeviceStep,
     terminateProcessStep, terminateChildrenStep, dispatchStep, idleStep, recheckStep,
     WAITStep, wakeUpStep, LDSTStep DEF KernelStep
<1>2. CASE UserStep
  BY <1>2, sysCreateProcessStep, SYSCALL_TERMPROCESSStep, passUpOrDieStep,
     SYSCALL_PASSERENStep, SYSCALL_VERHOGENStep, sysDoIOStep, sysDoIOPanicStep,
     sysClockWaitStep DEF UserStep
<1>3. CASE InterruptStep
  BY <1>3, timerInUserStep, timerInIdleStep, handleSysTimerStep, handleDeviceIntStep
     DEF InterruptStep, handleLocalTimer
<1>4. CASE \E d \in Dev : DeviceDone(d)
  BY <1>4, DeviceDoneStep
<1>5. CASE Stop \/ UNCHANGED vars
  BY <1>5, StutterStep DEF Stop
<1> QED
  BY <1>1, <1>2, <1>3, <1>4, <1>5 DEF Next

(* IInv holds in every state the nucleus can reach.                        *)
THEOREM Invariance == Spec => []IInv
  BY InitIInv, NextIInv, PTL DEF Spec

(* Type correctness: every pointer of the nucleus is NULL or of the right  *)
(* kind, and every frame of the kernel stack has proper arguments.         *)
THEOREM TypeCorrect == Spec => []TypeOK
<1>1. IInv => TypeOK
  BY DEF IInv
<1> QED
  BY <1>1, Invariance, PTL

(* The lists threaded through p_list are mutually exclusive for any number *)
(* of processes, semaphores and devices and whatever the programs do.      *)
THEOREM ListsAreExclusive == Spec => []ListsExclusive
<1>1. IInv => ListsExclusive
  BY DEF IInv
<1> QED
  BY <1>1, Invariance, PTL

(* p_semAdd always names the semaphore in whose queue a process is, so     *)
(* terminateProcess takes it off the right one.                            *)
THEOREM SemAddIsTheQueue == Spec => []SemAddMatchesQueue
<1>1. IInv => SemAddMatchesQueue
  BY DEF IInv
<1> QED
  BY <1>1, Invariance, PTL

(* The process that runs user code has not been terminated: the kernel     *)
(* never returns to a process whose PCB it has freed.                      *)
THEOREM RunningIsLive == Spec => []CurrentIsLive
<1>1. IInv => CurrentIsLive
  BY DEF IInv
<1> QED
  BY <1>1, Invariance, PTL

(* At most one SEMD is in use for each blocked process.                    *)
LEMMA SemdsInUse ==
  ASSUME IInv
  PROVE  /\ IsFiniteSet(ActiveSemd)
         /\ Cardinality(ActiveSemd) <= Cardinality(Blocked)
<1> DEFINE f == [p \in Blocked |-> p_semAdd[p]]
<1>1. TypeOK /\ Queues
  BY InvariantQueues
<1>2. IsFiniteSet(Blocked)
  BY PcbAssumption, FS_Subset DEF Blocked
<1>3. \A p \in Blocked : p_semAdd[p] \in ActiveSemd
  <2> SUFFICES ASSUME NEW p \in Blocked
               PROVE  p_semAdd[p] \in SemAddr /\ s_procq[p_semAdd[p]] # <<>>
    BY DEF ActiveSemd
  <2>1. p \in Pcb /\ p_semAdd[p] \in SemAddr
    BY <1>1 DEF Blocked, TypeOK
  <2>2. p \in ToSet(s_procq[p_semAdd[p]])
    BY <1>1, <2>1 DEF Queues, SemAddMatchesQueue
  <2> QED
    BY <2>1, <2>2, EmptyQueue
<1>4. \A s \in ActiveSemd : \E p \in Blocked : p_semAdd[p] = s
  <2> TAKE s \in ActiveSemd
  <2>1. s \in SemAddr /\ s_procq[s] # <<>> /\ s_procq[s] \in Seq(Pcb) /\ IsInjective(s_procq[s])
    BY <1>1 DEF ActiveSemd, TypeOK, Queues
  <2>2. Head(s_procq[s]) \in ToSet(s_procq[s])
    BY <2>1, TailQueue
  <2>3. Head(s_procq[s]) \in Blocked /\ p_semAdd[Head(s_procq[s])] = s
    BY <1>1, <2>1, <2>2, QueuedIsBlocked
  <2> QED
    BY <2>3
<1>5. f \in Surjection(Blocked, ActiveSemd)
  BY <1>3, <1>4 DEF Surjection
<1> QED
  BY <1>2, <1>5, FS_Surjection

(* With a process to block, the descriptors are not all in use.            *)
LEMMA SemdLeft ==
  ASSUME IInv
  PROVE  SemdNeverExhausted
<1> SUFFICES ASSUME g_current_process # NULL, NEW s \in SemAddr
             PROVE  Cardinality(ActiveSemd) < Cardinality(Pcb)
  BY DEF SemdNeverExhausted, SemdAvailable
<1> DEFINE Others == Pcb \ {g_current_process}
<1>1. /\ g_current_process \in Pcb
      /\ Blocked \in SUBSET Others
  BY DEF IInv, TypeOK, ListsExclusive, Blocked
<1>2. IsFiniteSet(Others) /\ Cardinality(Others) = Cardinality(Pcb) - 1
  BY <1>1, PcbAssumption, FS_RemoveElement
<1>3. Cardinality(Blocked) <= Cardinality(Others)
  BY <1>1, <1>2, FS_Subset
<1>4. IsFiniteSet(Blocked)
  BY <1>1, <1>2, FS_Subset
<1>5. /\ Cardinality(Pcb) \in Nat /\ Cardinality(ActiveSemd) \in Nat
      /\ Cardinality(Blocked) \in Nat
  BY <1>4, PcbAssumption, SemdsInUse, FS_CardinalityType
<1>6. Cardinality(ActiveSemd) <= Cardinality(Blocked)
  BY SemdsInUse
<1> HIDE DEF Others
<1> QED
  BY <1>2, <1>3, <1>5, <1>6

(* The pool of semaphore descriptors never runs out: with a process to     *)
(* block, MAX_PROC descriptors are enough, so that the callers of          *)
(* insertBlocked may ignore its result.                                    *)
THEOREM SemdsSuffice == Spec => []SemdNeverExhausted
  BY SemdLeft, Invariance, PTL

-----------------------------------------------------------------------------
(* Addresses and stacks *)

(* Semaphores of different kinds, or of different devices, have different  *)
(* addresses.                                                              *)
LEMMA AddressesDistinct ==
  /\ \A d, e : mut(d) # sync(e) /\ mut(d) # g_pseudo_clock /\ sync(d) # g_pseudo_clock
  /\ \A d, e : mut(d) = mut(e) \/ sync(d) = sync(e) => d = e
  /\ \A d : mut(d) \notin UserSem /\ sync(d) \notin UserSem
  /\ g_pseudo_clock \notin UserSem
  /\ \A s \in SemAddr : s \in UserSem \/ s = g_pseudo_clock \/ \E d \in Dev : s \in {mut(d), sync(d)}
  /\ \A d : mut(d)[2] = d /\ sync(d)[2] = d /\ mut(d)[1] = "mut" /\ sync(d)[1] = "sync"
  /\ UserSem \subseteq SemAddr /\ g_pseudo_clock \in SemAddr
  /\ \A s \in UserSem : s[1] = "user"
  /\ g_pseudo_clock[1] = "clock"
  BY DEF mut, sync, g_pseudo_clock, UserSem, SemAddr

(* What is below the top of a stack of one or two frames.                  *)
LEMMA ShortTails ==
  /\ \A f : <<f>> # <<>> /\ Head(<<f>>) = f /\ Tail(<<f>>) = <<>> /\ <<f>>[Len(<<f>>)] = f
  /\ \A f, g : <<f, g>> # <<>> /\ Head(<<f, g>>) = f /\ Tail(<<f, g>>) = <<g>>
                /\ <<f, g>>[Len(<<f, g>>)] = g
  /\ \A f : <<f>> \o <<>> = <<f>>
  OBVIOUS

(* The stacks of a DOIO on d of process c, and of the interrupt after it.  *)
IoStack(k, d, c) ==
  \/ k = <<CallPasseren(mut(d)), CallBeginIO(d, c)>>
  \/ k = <<CallBeginIO(d, c)>>
  \/ k = <<CallPasseren(sync(d))>>
  \/ k = <<CallVerhogen(sync(d)), CallReleaseDevice(d)>>
  \/ k = <<CallReleaseDevice(d)>>

(* The other stacks are not of this kind.                                  *)
LEMMA OtherStacks ==
  ASSUME NEW k, NEW d, NEW c,
         \/ k = <<>>
         \/ \E s \in UserSem \cup {g_pseudo_clock} : k = <<CallPasseren(s)>> \/ k = <<CallVerhogen(s)>>
         \/ k = <<CallScheduler>>
         \/ k # <<>> /\ Head(k).fn \in TermFn
  PROVE  ~ IoStack(k, d, c)
  BY AddressesDistinct DEF IoStack, CallPasseren, CallVerhogen, CallBeginIO,
     CallReleaseDevice, CallScheduler, TermFn

(* The steps of an I/O operation are different from each other and from    *)
(* the ones of the operation of another device.                            *)
LEMMA IoStacksDistinct ==
  ASSUME NEW k, NEW d, NEW e, NEW c, NEW b
  PROVE  /\ k = <<CallPasseren(mut(d)), CallBeginIO(d, c)>> /\ IoStack(k, e, b) => 
               e = d /\ k # <<CallBeginIO(d, b)>> /\ k # <<CallPasseren(sync(d))>>
               /\ k # <<CallVerhogen(sync(d)), CallReleaseDevice(d)>> /\ k # <<CallReleaseDevice(d)>>
         /\ k = <<CallBeginIO(d, c)>> /\ IoStack(k, e, b) =>
               e = d /\ c = b /\ k # <<CallPasseren(mut(d)), CallBeginIO(d, b)>> /\ k # <<CallPasseren(sync(d))>>
               /\ k # <<CallVerhogen(sync(d)), CallReleaseDevice(d)>> /\ k # <<CallReleaseDevice(d)>>
         /\ k = <<CallPasseren(sync(d))>> /\ IoStack(k, e, b) =>
               e = d /\ k # <<CallPasseren(mut(d)), CallBeginIO(d, b)>> /\ k # <<CallBeginIO(d, b)>> 
               /\ k # <<CallVerhogen(sync(d)), CallReleaseDevice(d)>> /\ k # <<CallReleaseDevice(d)>>
         /\ k = <<CallVerhogen(sync(d)), CallReleaseDevice(d)>> /\ IoStack(k, e, b) =>
               e = d /\ k # <<CallPasseren(mut(d)), CallBeginIO(d, b)>> /\ k # <<CallBeginIO(d, b)>> 
               /\ k # <<CallPasseren(sync(d))>> /\ k # <<CallReleaseDevice(d)>>
         /\ k = <<CallReleaseDevice(d)>> /\ IoStack(k, e, b) =>
               e = d /\ k # <<CallPasseren(mut(d)), CallBeginIO(d, b)>> /\ k # <<CallBeginIO(d, b)>> 
               /\ k # <<CallPasseren(sync(d))>> /\ k # <<CallVerhogen(sync(d)), CallReleaseDevice(d)>>
  BY AddressesDistinct DEF IoStack, CallPasseren, CallVerhogen, CallBeginIO, CallReleaseDevice

(* The functions on top of the stack.                                      *)
LEMMA Tops ==
  /\ \A s : Head(<<CallPasseren(s)>>).fn = "sysPasseren" /\ Head(<<CallVerhogen(s)>>).fn = "sysVerhogen"
  /\ \A d, c : Asked(d) \/ Commanded(d) => Head(kcall).fn = "sysPasseren"
  /\ \A d : Claimed(d) => Head(kcall).fn = "beginIO"
  /\ \A d : Signalling(d) => Head(kcall).fn = "sysVerhogen"
  /\ \A d : Releasing(d) => Head(kcall).fn = "releaseDevice"
  BY DEF Asked, Commanded, Claimed, Signalling, Releasing,
         CallPasseren, CallVerhogen, CallBeginIO, CallReleaseDevice

(* A termination ends with the scheduler alone on the stack.               *)
LEMMA TerminationTop ==
  ASSUME NEW k \in Seq(Frame), TerminationStack(k)
  PROVE  /\ Head(k).fn \in TermFn \cup {"scheduler"}
         /\ Head(k).fn = "scheduler" => k = <<CallScheduler>>
         /\ Head(k).fn \in TermFn => Len(k) >= 2 /\ TerminationStack(Tail(k))
<1>1. Len(k) \in Nat /\ Len(k) >= 1 /\ Head(k) = k[1] /\ k[Len(k)] = CallScheduler
  BY DEF TerminationStack
<1>2. CASE Len(k) = 1
  BY <1>1, <1>2 DEF TermFn, CallScheduler
<1>3. CASE Len(k) >= 2
  <2>1. k[1].fn \in TermFn
    BY <1>1, <1>3 DEF TerminationStack
  <2>2. TerminationStack(Tail(k))
    BY SMTT(30), <1>1, <1>3 DEF TerminationStack
  <2> QED
    BY <1>1, <1>3, <2>1, <2>2 DEF TermFn
<1>4. Len(k) = 1 \/ Len(k) >= 2
  <2> DEFINE n == Len(k)
  <2>1. n \in Nat /\ n >= 1
    BY <1>1
  <2> HIDE DEF n
  <2>2. n = 1 \/ n >= 2
    BY <2>1
  <2> QED
    BY <2>2 DEF n
<1> QED
  BY <1>2, <1>3, <1>4

(* What the shape of the stack says when a function runs.                  *)
LEMMA RunningStack ==
  ASSUME TypeOK, StackShape, NEW fn, Running(fn)
  PROVE  /\ fn = "sysPasseren" => SyscallStack /\ ~ \E d \in Dev : Claimed(d)
         /\ fn = "sysVerhogen" =>
              \/ SyscallStack /\ \E s \in UserSem : kcall = <<CallVerhogen(s)>>
              \/ \E d \in Dev : Signalling(d)
         /\ fn = "beginIO" => SyscallStack /\ \E d \in Dev : Claimed(d)
         /\ fn = "releaseDevice" => \E d \in Dev : Releasing(d)
         /\ fn = "scheduler" => kcall = <<CallScheduler>>
         /\ fn \in TermFn => TerminationStack(kcall)
<1>1. Head(kcall).fn = fn /\ kcall \in Seq(Frame)
  BY RunningFrame
<1>2. TerminationStack(kcall) \/ SyscallStack \/ InterruptStack
  BY DEF StackShape, Running
<1>3. CASE TerminationStack(kcall)
  BY <1>1, <1>3, TerminationTop DEF TermFn
<1>4. CASE SyscallStack
  BY <1>1, <1>4, Tops DEF TermFn, SyscallStack
<1>5. CASE InterruptStack
  BY <1>1, <1>5, Tops DEF TermFn, InterruptStack
<1> QED
  BY <1>2, <1>3, <1>4, <1>5
-----------------------------------------------------------------------------
(* The devices between two operations of the kernel on them *)

NoIoStack == \A d \in Dev : ~ IoStack(kcall, d, g_current_process)

(* Without an I/O frame on the stack a device is idle, or its user waits.  *)
LEMMA NoIoPhases ==
  ASSUME NoIoStack, NEW d \in Dev
  PROVE  ~ Asked(d) /\ ~ Claimed(d) /\ ~ Commanded(d) /\ ~ Signalling(d) /\ ~ Releasing(d)
  BY DEF NoIoStack, IoStack, Asked, Claimed, Commanded, Signalling, Releasing

(* The process that waits for a device is blocked on its sync semaphore,   *)
(* hence neither ready nor current nor free.                               *)
LEMMA IoWaiter ==
  ASSUME IInv, DevicesInPhase, NEW d \in Dev, waiting_process[d] # NULL,
         ~ Commanded(d), ~ Releasing(d)
  PROVE  /\ waiting_process[d] \in Pcb
         /\ p_semAdd[waiting_process[d]] = sync(d)
         /\ s_procq[sync(d)] = <<waiting_process[d]>>
         /\ waiting_process[d] \in Blocked
         /\ waiting_process[d] \notin Ready \cup pcbFree_h
         /\ waiting_process[d] # g_current_process
         /\ p_s[waiting_process[d]].call = "DOIO"
<1> DEFINE w == waiting_process[d]
<1>1. TypeOK /\ Queues /\ ListsExclusive
  BY InvariantQueues DEF IInv
<1>2. w \in Pcb /\ sync(d) \in SemAddr
  BY <1>1, SemAddrTypes DEF TypeOK
<1>3. s_procq[sync(d)] = <<w>> /\ p_s[w].call = "DOIO"
  BY DEF DevicesInPhase, DeviceFree, DeviceUsed
<1> HIDE DEF w
<1>4. w \in ToSet(s_procq[sync(d)])
  BY <1>2, <1>3, SingleFrame
<1>5. w \in Blocked /\ p_semAdd[w] = sync(d)
  BY <1>1, <1>2, <1>4, QueuedIsBlocked
<1> QED
  BY <1>1, <1>2, <1>3, <1>5 DEF ListsExclusive, w

(* A process that is blocked on a semaphore of a device waits for it to    *)
(* end its operation.                                                      *)
LEMMA BlockedOnDevice ==
  ASSUME IInv, DevicesInPhase, NEW d \in Dev, NEW p \in Pcb,
         p_semAdd[p] \in {mut(d), sync(d)}
  PROVE  /\ p_semAdd[p] = sync(d) /\ waiting_process[d] = p
         /\ p_s[p].call = "DOIO"
         /\ semaphore[sync(d)] = 0
<1>1. TypeOK /\ Queues /\ sync(d) \in SemAddr /\ mut(d) \in SemAddr
  BY InvariantQueues, SemAddrTypes
<1>2. p \in ToSet(s_procq[p_semAdd[p]])
  BY <1>1 DEF Queues, SemAddMatchesQueue
<1>3. p_semAdd[p] = sync(d)
  BY <1>2, EmptyQueue DEF DevicesInPhase
<1>4. s_procq[sync(d)] # <<>>
  BY <1>2, <1>3, EmptyQueue
<1>5. s_procq[sync(d)] = <<waiting_process[d]>> /\ p_s[waiting_process[d]].call = "DOIO"
  BY <1>4 DEF DevicesInPhase, DeviceFree, DeviceUsed
<1>6. waiting_process[d] \in Pcb
  BY <1>1, <1>5, <1>4 DEF DevicesInPhase, DeviceFree, DeviceUsed, TypeOK
<1>7. ToSet(s_procq[sync(d)]) = {waiting_process[d]}
  BY <1>5, <1>6, SingleFrame
<1> QED
  BY <1>2, <1>3, <1>5, <1>7 DEF DevicesInPhase

(* A step that has nothing to do with a device.                            *)
LEMMA DeviceUntouched ==
  ASSUME IInv, DevicesInPhase, NEW d \in Dev,
         ~ IoStack(kcall, d, g_current_process), ~ IoStack(kcall', d, g_current_process'),
         waiting_process'[d] = waiting_process[d], device'[d] = device[d],
         s_procq'[mut(d)] = s_procq[mut(d)], s_procq'[sync(d)] = s_procq[sync(d)],
         semaphore'[mut(d)] = semaphore[mut(d)], semaphore'[sync(d)] = semaphore[sync(d)],
         \A p \in Blocked : p_s'[p].call = p_s[p].call
  PROVE  /\ s_procq'[mut(d)] = <<>> /\ semaphore'[sync(d)] = 0
         /\ (DeviceFree(d) \/ DeviceUsed(d))'
<1>1. ~ Asked(d) /\ ~ Claimed(d) /\ ~ Commanded(d) /\ ~ Signalling(d) /\ ~ Releasing(d)
  BY DEF IoStack, Asked, Claimed, Commanded, Signalling, Releasing
<1>2. (~ Asked(d) /\ ~ Claimed(d) /\ ~ Commanded(d) /\ ~ Signalling(d) /\ ~ Releasing(d))'
  BY DEF IoStack, Asked, Claimed, Commanded, Signalling, Releasing
<1>3. CASE DeviceFree(d)
  BY <1>1, <1>2, <1>3 DEF DevicesInPhase, DeviceFree
<1>4. CASE DeviceUsed(d)
  <2>1. waiting_process[d] \in Blocked
    BY <1>1, <1>4, IoWaiter DEF DeviceUsed
  <2> QED
    BY <1>1, <1>2, <1>4, <2>1 DEF DevicesInPhase, DeviceUsed
<1> QED
  BY <1>3, <1>4 DEF DevicesInPhase

(* A step that has nothing to do with the devices.                         *)
LEMMA DevicesUntouched ==
  ASSUME IInv, DevicesInPhase, NoIoStack, NoIoStack',
         UNCHANGED <<waiting_process, device>>,
         \A d \in Dev : /\ s_procq'[mut(d)] = s_procq[mut(d)]
                        /\ s_procq'[sync(d)] = s_procq[sync(d)]
                        /\ semaphore'[mut(d)] = semaphore[mut(d)]
                        /\ semaphore'[sync(d)] = semaphore[sync(d)],
         \A p \in Blocked : p_s'[p].call = p_s[p].call
  PROVE  DevicesInPhase'
<1> SUFFICES ASSUME NEW d \in Dev
             PROVE  /\ s_procq'[mut(d)] = <<>> /\ semaphore'[sync(d)] = 0
                    /\ (DeviceFree(d) \/ DeviceUsed(d))'
  BY DEF DevicesInPhase
<1> QED
  BY DeviceUntouched DEF NoIoStack

(* A termination is no I/O.                                                *)
LEMMA TerminationIsNoIo ==
  ASSUME NEW k \in Seq(Frame), TerminationStack(k)
  PROVE  \A d, c : ~ IoStack(k, d, c)
<1>1. k # <<>> /\ (Head(k).fn \in TermFn \/ k = <<CallScheduler>>)
  BY TerminationTop DEF TerminationStack
<1> QED
  BY <1>1, OtherStacks

(* The stack of the scheduler is what is left of a termination.            *)
LEMMA SchedulerStack ==
  TerminationStack(<<CallScheduler>>)
  BY DEF TerminationStack, CallScheduler

(* The stack is empty unless the kernel runs.                              *)
LEMMA NoKernelNoStack ==
  ASSUME StackShape, cpu # "kernel"
  PROVE  kcall = <<>> /\ NoIoStack
  BY OtherStacks DEF StackShape, NoIoStack

(* Nothing is terminated when there is no frame for it.                    *)
LEMMA NoTermination ==
  ASSUME NEW f, NEW g, kcall' = <<>> \/ kcall' = <<f>> \/ kcall' = <<f, g>>,
         f.fn \notin TermFn, g.fn \notin TermFn
  PROVE  TerminationSparesIo'
<1>1. ToSet(kcall') \subseteq {f, g}
  BY DEF ToSet
<1> QED
  BY <1>1 DEF TerminationSparesIo

(* A step that changes neither queues nor values nor devices.              *)
LEMMA QuietStep ==
  ASSUME IInv, IoInv, NoIoStack, NoIoStack', StackShape', TerminationSparesIo',
         UNCHANGED <<s_procq, p_semAdd, p_s, semaphore, g_ready_queue, waiting_process, device>>
  PROVE  IoInv'
<1>1. DevicesInPhase'
  BY DevicesUntouched DEF IoInv
<1>2. WaitersOnValues' /\ IoResultDelivered'
  BY DEF IoInv, WaitersOnValues, IoResultDelivered, Blocked, Ready
<1> QED
  BY <1>1, <1>2 DEF IoInv

(* The scheduler without a ready process.                                  *)
LEMMA IoIdle == ASSUME IInv, IoInv, idle PROVE IoInv'
<1>1. kcall = <<CallScheduler>>
  BY RunningStack DEF idle, IInv, IoInv
<1>2. /\ kcall' = <<>>
      /\ UNCHANGED <<s_procq, p_semAdd, p_s, semaphore, g_ready_queue, waiting_process, device>>
  BY DEF idle, schedUnchanged, ioVars
<1>3. NoIoStack /\ NoIoStack'
  BY <1>1, <1>2, OtherStacks DEF NoIoStack
<1>4. StackShape' /\ TerminationSparesIo'
  BY <1>2, EmptyQueue DEF StackShape, TerminationSparesIo
<1> QED
  BY <1>2, <1>3, <1>4, QuietStep

(* The idle loop.                                                          *)
LEMMA IoIdleLoop == ASSUME IInv, IoInv, recheck \/ WAIT \/ wakeUp PROVE IoInv'
<1>1. /\ cpu # "kernel"
      /\ kcall' = kcall \/ (kcall' = <<CallScheduler>> /\ cpu' = "kernel")
      /\ UNCHANGED <<s_procq, p_semAdd, p_s, semaphore, g_ready_queue, waiting_process, device>>
  BY DEF recheck, WAIT, wakeUp, schedUnchanged, ioVars
<1>2. kcall = <<>> /\ NoIoStack
  BY <1>1, NoKernelNoStack DEF IoInv
<1>3. NoIoStack'
  BY <1>1, <1>2, OtherStacks DEF NoIoStack
<1>4. StackShape'
  BY <1>1, <1>2, SchedulerStack DEF StackShape
<1>5. TerminationSparesIo'
  <2>1. CallScheduler.fn \notin TermFn
    BY DEF CallScheduler, TermFn
  <2> QED
    BY <1>1, <1>2, <2>1, NoTermination
<1> QED
  BY <1>1, <1>2, <1>3, <1>4, <1>5, QuietStep

(* The return from an exception, and DOIO on a wrong address.              *)
LEMMA IoReturn == ASSUME IInv, IoInv, LDST \/ sysDoIOPanic PROVE IoInv'
<1>1. /\ kcall = <<>>
      /\ UNCHANGED <<s_procq, p_semAdd, p_s, semaphore, g_ready_queue, waiting_process, device, kcall>>
  BY NoKernelNoStack DEF LDST, sysDoIOPanic, schedUnchanged, ioVars, queueVars, IoInv
<1>2. NoIoStack /\ NoIoStack'
  BY <1>1, OtherStacks DEF NoIoStack
<1>3. StackShape' /\ TerminationSparesIo'
  BY <1>1, EmptyQueue DEF StackShape, TerminationSparesIo
<1> QED
  BY <1>1, <1>2, <1>3, QuietStep

(* A system call on a semaphore of a program or on the pseudo-clock.       *)
LEMMA IoSemaphoreCall ==
  ASSUME IInv, IoInv, SYSCALL_PASSEREN \/ SYSCALL_VERHOGEN \/ sysClockWait
  PROVE  IoInv'
<1>1. /\ cpu = "user" /\ cpu' = "kernel"
      /\ \/ /\ g_old_state' = [NoContext EXCEPT !.call = "PASSEREN"]
            /\ \E s \in UserSem : kcall' = <<CallPasseren(s)>>
         \/ /\ g_old_state' = [NoContext EXCEPT !.call = "VERHOGEN"]
            /\ \E s \in UserSem : kcall' = <<CallVerhogen(s)>>
         \/ /\ g_old_state' = [NoContext EXCEPT !.call = "CLOCKWAIT"]
            /\ kcall' = <<CallPasseren(g_pseudo_clock)>>
      /\ UNCHANGED <<s_procq, p_semAdd, p_s, semaphore, g_ready_queue, waiting_process, device>>
  BY DEF SYSCALL_PASSEREN, SYSCALL_VERHOGEN, sysClockWait, Syscall, queueVars, ioVars, UserSem
<1>2. SyscallStack'
  BY <1>1 DEF SyscallStack, NoContext
<1>3. StackShape'
  BY <1>1, <1>2 DEF StackShape
<1>4. NoIoStack
  BY <1>1, NoKernelNoStack DEF IoInv
<1>5. NoIoStack'
  BY <1>1, OtherStacks DEF NoIoStack
<1>6. TerminationSparesIo'
  <2>1. PICK s : kcall' = <<CallPasseren(s)>> \/ kcall' = <<CallVerhogen(s)>>
    BY <1>1
  <2>2. CallPasseren(s).fn \notin TermFn /\ CallVerhogen(s).fn \notin TermFn
    BY DEF CallPasseren, CallVerhogen, TermFn
  <2> QED
    BY <2>1, <2>2, NoTermination
<1> QED
  BY <1>1, <1>3, <1>4, <1>5, <1>6, QuietStep

-----------------------------------------------------------------------------
(* Subtrees *)

(* A process is in its own tree, and its children are too.                 *)
LEMMA SubtreeClosed ==
  ASSUME TypeOK, NEW p \in Pcb
  PROVE  /\ p \in Subtree(p) /\ Subtree(p) \subseteq Pcb
         /\ \A r \in Subtree(p) : p_child[r] \subseteq Subtree(p)
<1>1. p_child \in [Pcb -> SUBSET Pcb]
  BY DEF TypeOK
<1> QED
  BY <1>1 DEF Subtree

(* It is the least set with this property.                                 *)
LEMMA SubtreeLeast ==
  ASSUME NEW p \in Pcb, NEW S \in SUBSET Pcb, p \in S, \A r \in S : p_child[r] \subseteq S
  PROVE  Subtree(p) \subseteq S
  BY DEF Subtree

(* The tree of a child is a part of the tree.                              *)
LEMMA SubtreeOfChild ==
  ASSUME TypeOK, NEW p \in Pcb, NEW c \in p_child[p]
  PROVE  Subtree(c) \subseteq Subtree(p)
<1>1. c \in Subtree(p) /\ Subtree(p) \in SUBSET Pcb /\ c \in Pcb
  BY SubtreeClosed
<1>2. \A r \in Subtree(p) : p_child[r] \subseteq Subtree(p)
  BY SubtreeClosed
<1> QED
  BY <1>1, <1>2, SubtreeLeast

(* Where no process gets a child no tree grows.                            *)
LEMMA SubtreeShrinks ==
  ASSUME NEW p \in Pcb, \A r \in Pcb : p_child'[r] \subseteq p_child[r]
  PROVE  Subtree(p)' \subseteq Subtree(p)
<1> SUFFICES ASSUME NEW q \in Subtree(p)', NEW S \in SUBSET Pcb,
                    p \in S, \A r \in S : p_child[r] \subseteq S
             PROVE  q \in Pcb /\ q \in S
  BY DEF Subtree
<1>1. \A r \in S : p_child'[r] \subseteq S
  OBVIOUS
<1> QED
  BY <1>1 DEF Subtree

-----------------------------------------------------------------------------
(* Termination of a subtree *)

(* A new process has a fresh PCB that no device knows.                     *)
LEMMA IoCreate == ASSUME IInv, IoInv, sysCreateProcess PROVE IoInv'
<1>1. TypeOK /\ ListsExclusive /\ cpu # "kernel"
  BY DEF IInv, sysCreateProcess
<1>2. PICK p \in pcbFree_h :
        /\ p_semAdd' = [p_semAdd EXCEPT ![p] = NULL]
        /\ p_s' = [p_s EXCEPT ![p] = NoContext]
        /\ g_ready_queue' = Append(g_ready_queue, p)
  BY DEF sysCreateProcess, allocPcb
<1>3. UNCHANGED <<s_procq, semaphore, waiting_process, device, g_current_process,
                  g_old_state, cpu, kcall>>
  BY DEF sysCreateProcess, ioVars
<1>4. /\ p \in Pcb /\ p \notin Blocked /\ p_semAdd' = p_semAdd
      /\ \A r \in Pcb \ {p} : p_s'[r] = p_s[r]
      /\ p_s'[p] = NoContext
  BY <1>1, <1>2 DEF TypeOK, ListsExclusive, Blocked
<1>5. kcall = <<>> /\ NoIoStack /\ NoIoStack'
  BY <1>1, <1>3, NoKernelNoStack DEF IoInv, NoIoStack
<1>6. DevicesInPhase'
  <2>1. \A r \in Blocked : p_s'[r].call = p_s[r].call
    BY <1>4 DEF Blocked
  <2> QED
    BY <1>3, <1>5, <2>1, DevicesUntouched DEF IoInv
<1>7. StackShape' /\ TerminationSparesIo'
  BY <1>3, <1>5, EmptyQueue DEF StackShape, TerminationSparesIo
<1>8. WaitersOnValues'
  BY <1>3, <1>4 DEF IoInv, WaitersOnValues, Blocked
<1>9. IoResultDelivered'
  <2>1. g_ready_queue \in Seq(Pcb) /\ Ready' = Ready \cup {p}
    BY <1>1, <1>2, <1>4, AppendQueue DEF TypeOK, Ready
  <2>2. Ready \subseteq Pcb /\ NoContext.call # "DOIO"
    BY <2>1 DEF Ready, ToSet, NoContext
  <2> QED
    BY <1>4, <2>1, <2>2 DEF IoInv, IoResultDelivered
<1> QED
  BY <1>6, <1>7, <1>8, <1>9 DEF IoInv

(* The calls that put a termination on the stack.                          *)
LEMMA IoTerminateCall ==
  ASSUME IoClient, IInv, IoInv, NEW p \in Pcb, MayTerminate(p), sysTerminateProcess(p)
  PROVE  IoInv'
<1>1. /\ cpu = "user" /\ cpu' = "kernel"
      /\ kcall' = <<CallTerminateProcess(p), CallScheduler>>
      /\ p_child' = outChild(p)
      /\ UNCHANGED <<s_procq, p_semAdd, p_s, semaphore, g_ready_queue, waiting_process, device>>
  BY DEF sysTerminateProcess, Syscall, queueVars, ioVars
<1>2. NoIoStack
  BY <1>1, NoKernelNoStack DEF IoInv
<1>3. TerminationStack(kcall') /\ Head(kcall').fn \in TermFn /\ kcall' # <<>>
  BY <1>1 DEF TerminationStack, CallTerminateProcess, CallScheduler, TermFn
<1>4. NoIoStack'
  BY <1>3, OtherStacks DEF NoIoStack
<1>5. StackShape'
  BY <1>1, <1>3 DEF StackShape
<1>6. TerminationSparesIo'
  <2>1. \A d \in Dev : waiting_process[d] \notin Subtree(p)
    BY DEF MayTerminate, IoClient
  <2>2. \A r \in Pcb : p_child'[r] \subseteq p_child[r]
    BY <1>1 DEF outChild, IInv, TypeOK
  <2>3. Subtree(p)' \subseteq Subtree(p)
    BY <2>2, SubtreeShrinks
  <2>4. ToSet(kcall') = {CallTerminateProcess(p), CallScheduler}
    BY <1>1, FrameTypes, NewStackOfTwo
  <2>5. CallTerminateProcess(p).pcb = p /\ CallScheduler.fn \notin TermFn
    BY DEF CallTerminateProcess, CallScheduler, TermFn
  <2> SUFFICES ASSUME NEW f \in ToSet(kcall'), f.fn \in TermFn, NEW d \in Dev
               PROVE  waiting_process'[d] \notin Subtree(f.pcb)'
    BY DEF TerminationSparesIo
  <2>6. f.pcb = p
    BY <2>4, <2>5
  <2> QED
    BY <1>1, <2>1, <2>3, <2>6
<1> QED
  BY <1>1, <1>2, <1>4, <1>5, <1>6, QuietStep

(* A termination goes on with another frame, or returns.                   *)
LEMMA TerminationGoesOn ==
  ASSUME NEW k \in Seq(Frame), TerminationStack(k), Head(k).fn \in TermFn,
         NEW f \in Frame, f.fn \in TermFn
  PROVE  /\ TerminationStack(<<f>> \o Tail(k)) /\ TerminationStack(<<f>> \o k)
         /\ TerminationStack(Tail(k))
         /\ Head(<<f>> \o Tail(k)) = f /\ Head(<<f>> \o k) = f
<1> DEFINE n == Len(k)
<1>1. n \in Nat /\ n >= 2 /\ TerminationStack(Tail(k))
  BY TerminationTop
<1>2. ASSUME NEW t \in Seq(Frame), TerminationStack(t)
      PROVE  TerminationStack(<<f>> \o t) /\ Head(<<f>> \o t) = f
  <2> DEFINE a == <<f>> \o t
             m == Len(t)
  <2>1. /\ m \in Nat /\ m >= 1 /\ t[m] = CallScheduler
        /\ \A i \in 1 .. m - 1 : t[i].fn \in TermFn
    BY <1>2 DEF TerminationStack
  <2>2. /\ Len(a) = m + 1 /\ a # <<>> /\ a[1] = f /\ Head(a) = f
        /\ \A i \in 1 .. m : a[i + 1] = t[i]
    OBVIOUS
  <2> HIDE DEF a, m
  <2>3. a[m + 1] = CallScheduler
    BY <2>1, <2>2
  <2>4. \A i \in 1 .. m : a[i].fn \in TermFn
    <3> TAKE i \in 1 .. m
    <3>1. CASE i = 1
      BY <2>2, <3>1
    <3>2. CASE i # 1
      <4>1. i - 1 \in 1 .. m - 1 /\ i - 1 \in 1 .. m /\ (i - 1) + 1 = i
        BY <2>1, <3>2
      <4>2. a[i] = t[i - 1]
        BY <2>2, <4>1
      <4> QED
        BY <2>1, <4>1, <4>2
    <3> QED
      BY <3>1, <3>2
  <2>5. Len(a) - 1 = m
    BY <2>1, <2>2
  <2>6. TerminationStack(a)
    BY <2>2, <2>3, <2>4, <2>5 DEF TerminationStack
  <2> QED
    BY <2>2, <2>6 DEF a
<1>3. Tail(k) \in Seq(Frame)
  BY PopStack DEF TerminationStack
<1> QED
  BY <1>1, <1>2, <1>3

(* The process whose termination runs does not wait for a device.          *)
LEMMA TerminatedIsNoWaiter ==
  ASSUME IInv, IoInv, NEW fn \in TermFn, Running(fn)
  PROVE  /\ Head(kcall) \in ToSet(kcall) /\ Head(kcall) \in Frame /\ Head(kcall).fn = fn
         /\ Head(kcall).pcb \in Pcb
         /\ kcall \in Seq(Frame) /\ kcall # <<>>
         /\ TerminationStack(kcall) /\ NoIoStack
         /\ \A d \in Dev : waiting_process[d] \notin Subtree(Head(kcall).pcb)
         /\ \A d \in Dev : p_semAdd[Head(kcall).pcb] \notin {mut(d), sync(d)}
<1>1. TypeOK
  BY DEF IInv
<1>2. /\ Head(kcall) \in ToSet(kcall) /\ Head(kcall) \in Frame /\ Head(kcall).fn = fn
      /\ kcall \in Seq(Frame) /\ kcall # <<>>
  BY <1>1, RunningFrame
<1>3. Head(kcall).pcb \in Pcb
  BY <1>2, FrameArguments DEF TermFn
<1>4. TerminationStack(kcall)
  BY <1>1, RunningStack DEF IoInv
<1>5. NoIoStack
  BY <1>2, <1>4, TerminationIsNoIo DEF NoIoStack
<1>6. \A d \in Dev : waiting_process[d] \notin Subtree(Head(kcall).pcb)
  BY <1>2 DEF IoInv, TerminationSparesIo
<1>7. \A d \in Dev : waiting_process[d] # Head(kcall).pcb
  BY <1>1, <1>3, <1>6, SubtreeClosed
<1>8. \A d \in Dev : p_semAdd[Head(kcall).pcb] \notin {mut(d), sync(d)}
  BY <1>3, <1>7, BlockedOnDevice DEF IoInv
<1> QED
  BY <1>2, <1>3, <1>4, <1>5, <1>6, <1>8

(* What is on the stack of a termination stays spared while no process     *)
(* gets a child.                                                           *)
LEMMA StillSpared ==
  ASSUME IInv, IoInv, NEW c \in Pcb, \A d \in Dev : waiting_process[d] \notin Subtree(c),
         \A f \in ToSet(kcall') : f \in ToSet(kcall) \/ f.pcb = c,
         \A r \in Pcb : p_child'[r] \subseteq p_child[r],
         UNCHANGED waiting_process
  PROVE  TerminationSparesIo'
<1> SUFFICES ASSUME NEW f \in ToSet(kcall'), f.fn \in TermFn, NEW d \in Dev
             PROVE  waiting_process[d] \notin Subtree(f.pcb)'
  BY DEF TerminationSparesIo
<1>1. CASE f.pcb = c
  <2>1. Subtree(c)' \subseteq Subtree(c)
    BY SubtreeShrinks
  <2> QED
    BY <1>1, <2>1
<1>2. CASE f \in ToSet(kcall)
  <2>1. f \in Frame
    BY <1>2 DEF IInv, TypeOK, ToSet
  <2>2. f.pcb \in Pcb
    BY <2>1, FrameArguments DEF TermFn
  <2>3. Subtree(f.pcb)' \subseteq Subtree(f.pcb)
    BY <2>2, SubtreeShrinks
  <2> QED
    BY <1>2, <2>3 DEF IoInv, TerminationSparesIo
<1> QED
  BY <1>1, <1>2

(* terminateProcess takes the process off a semaphore that is no device's. *)
LEMMA IoTerminateProcess == ASSUME IInv, IoInv, terminateProcess PROVE IoInv'
<1> DEFINE p == Head(kcall).pcb
           s == p_semAdd[p]
<1>1. TypeOK /\ Running("terminateProcess") /\ "terminateProcess" \in TermFn
  BY DEF IInv, terminateProcess, TermFn
<1>2. /\ p \in Pcb /\ kcall \in Seq(Frame) /\ kcall # <<>> /\ TerminationStack(kcall) /\ NoIoStack
      /\ Head(kcall).fn \in TermFn
      /\ \A d \in Dev : waiting_process[d] \notin Subtree(p)
      /\ \A d \in Dev : s \notin {mut(d), sync(d)}
  BY <1>1, TerminatedIsNoWaiter
<1>3. /\ kcall' = <<CallTerminateChildren(p)>> \o Tail(kcall)
      /\ UNCHANGED <<pcbFree_h, p_parent, p_child, g_process_count, g_ready_queue,
                     waiting_process, device, p_s, g_current_process, g_old_state, cpu>>
  BY DEF terminateProcess, procVars, ioVars
<1>4. IF s = NULL
      THEN UNCHANGED <<s_procq, p_semAdd>>
      ELSE /\ s_procq' = [s_procq EXCEPT ![s] = RemoveFirst(s_procq[s], p)]
           /\ p_semAdd' = [p_semAdd EXCEPT ![p] = NULL]
  BY DEF terminateProcess, outBlocked
<1>5. s = NULL \/ (s \in SemAddr /\ s[1] \notin {"mut", "sync"})
  <2>1. s \in SemAddr \cup {NULL}
    BY <1>1, <1>2 DEF TypeOK
  <2>2. ASSUME s # NULL
        PROVE  s[1] \notin {"mut", "sync"}
    <3>1. s \in UserSem \cup {g_pseudo_clock}
      BY <1>2, <2>1, <2>2, AddressesDistinct
    <3> QED
      BY <3>1, AddressesDistinct
  <2> QED
    BY <2>1, <2>2
<1>6. UNCHANGED semaphore
  BY <1>5 DEF terminateProcess, isDeviceSemaphore
<1> HIDE DEF p, s
<1>7. \A d \in Dev : s_procq'[mut(d)] = s_procq[mut(d)] /\ s_procq'[sync(d)] = s_procq[sync(d)]
  BY <1>1, <1>2, <1>4, SemAddrTypes DEF TypeOK
<1>8. /\ CallTerminateChildren(p) \in Frame /\ CallTerminateChildren(p).fn \in TermFn
      /\ CallTerminateChildren(p).pcb = p
  BY <1>2, FrameTypes DEF CallTerminateChildren, TermFn
<1>9. /\ TerminationStack(kcall') /\ Head(kcall').fn \in TermFn /\ kcall' # <<>>
  BY <1>2, <1>3, <1>8, TerminationGoesOn DEF TerminationStack
<1>10. NoIoStack'
  BY <1>9, OtherStacks DEF NoIoStack
<1>11. StackShape'
  BY <1>1, <1>3, <1>9 DEF StackShape, Running
<1>12. TerminationSparesIo'
  <2>1. Tail(kcall) \in Seq(Frame) /\ ToSet(Tail(kcall)) \subseteq ToSet(kcall)
    BY <1>2, PopStack
  <2>2. ToSet(kcall') = {CallTerminateChildren(p)} \cup ToSet(Tail(kcall))
    BY <1>3, <1>8, <2>1, PushStack
  <2>3. \A f \in ToSet(kcall') : f \in ToSet(kcall) \/ f.pcb = p
    BY <1>8, <2>1, <2>2
  <2>4. \A r \in Pcb : p_child'[r] \subseteq p_child[r]
    BY <1>3
  <2> QED
    BY <1>2, <1>3, <2>3, <2>4, StillSpared
<1>13. DevicesInPhase'
  BY <1>2, <1>3, <1>6, <1>7, <1>10, DevicesUntouched DEF IoInv
<1>14. WaitersOnValues'
  <2>1. \A r \in Blocked' : r \in Blocked /\ p_semAdd'[r] = p_semAdd[r]
    BY <1>1, <1>2, <1>4 DEF Blocked, TypeOK
  <2> QED
    BY <1>3, <1>6, <2>1 DEF IoInv, WaitersOnValues
<1>15. IoResultDelivered'
  BY <1>3 DEF IoInv, IoResultDelivered, Ready
<1> QED
  BY <1>11, <1>12, <1>13, <1>14, <1>15 DEF IoInv

(* The next child, or the end of one termination.                          *)
LEMMA IoTerminateChildren == ASSUME IInv, IoInv, terminateChildren PROVE IoInv'
<1> DEFINE p == Head(kcall).pcb
<1>1. TypeOK /\ Running("terminateChildren") /\ "terminateChildren" \in TermFn
  BY DEF IInv, terminateChildren, TermFn
<1>2. /\ p \in Pcb /\ kcall \in Seq(Frame) /\ kcall # <<>> /\ TerminationStack(kcall) /\ NoIoStack
      /\ Head(kcall).fn \in TermFn
      /\ \A d \in Dev : waiting_process[d] \notin Subtree(p)
  BY <1>1, TerminatedIsNoWaiter
<1>3. UNCHANGED <<p_parent, s_procq, p_semAdd, waiting_process, device, p_s, semaphore,
                  g_soft_block_count, g_current_process, g_old_state, cpu>>
  BY DEF terminateChildren, ioVars
<1> DEFINE StillTerminating ==
             /\ \A r \in Pcb : p_child'[r] \subseteq p_child[r]
             /\ Ready' \subseteq Ready
             /\ TerminationStack(kcall') /\ kcall' \in Seq(Frame)
             /\ \E c \in Pcb : /\ \A d \in Dev : waiting_process[d] \notin Subtree(c)
                               /\ \A f \in ToSet(kcall') : f \in ToSet(kcall) \/ f.pcb = c
<1>4. StillTerminating
  <2>1. ASSUME NEW c \in p_child[p],
               p_child' = [p_child EXCEPT ![p] = @ \ {c}],
               kcall' = <<CallTerminateProcess(c)>> \o kcall,
               UNCHANGED <<pcbFree_h, g_ready_queue, g_process_count>>
        PROVE  StillTerminating
    <3> HIDE DEF p
    <3>1. /\ c \in Pcb /\ CallTerminateProcess(c) \in Frame
          /\ CallTerminateProcess(c).fn \in TermFn /\ CallTerminateProcess(c).pcb = c
      BY <1>1, <1>2, <2>1, FrameTypes DEF TypeOK, CallTerminateProcess, TermFn
    <3>2. TerminationStack(kcall')
      BY <1>2, <2>1, <3>1, TerminationGoesOn
    <3>3. /\ ToSet(kcall') = {CallTerminateProcess(c)} \cup ToSet(kcall)
          /\ kcall' \in Seq(Frame)
      BY <1>2, <2>1, <3>1, PushStack
    <3>4. \A d \in Dev : waiting_process[d] \notin Subtree(c)
      BY <1>1, <1>2, <2>1, SubtreeOfChild
    <3>5. \A r \in Pcb : p_child'[r] \subseteq p_child[r]
      BY <1>1, <1>2, <2>1 DEF TypeOK
    <3>6. Ready' = Ready
      BY <2>1 DEF Ready
    <3> QED
      BY <3>1, <3>2, <3>3, <3>4, <3>5, <3>6
  <2>2. ASSUME g_ready_queue' = RemoveFirst(g_ready_queue, p), Return, UNCHANGED p_child
        PROVE  StillTerminating
    <3> HIDE DEF p
    <3>1. kcall' = Tail(kcall)
      BY <2>2 DEF Return
    <3>2. TerminationStack(kcall')
      BY <1>2, <3>1, TerminationTop
    <3>3. kcall' \in Seq(Frame) /\ ToSet(kcall') \subseteq ToSet(kcall)
      BY <1>2, <3>1, PopStack
    <3>4. g_ready_queue \in Seq(Pcb) /\ IsInjective(g_ready_queue)
      BY DEF IInv, TypeOK, ListsExclusive
    <3>5. Ready' \subseteq Ready
      BY <2>2, <3>4, RemoveFirstQueue DEF Ready
    <3> QED
      BY <1>2, <2>2, <3>2, <3>3, <3>5
  <2> QED
    BY <2>1, <2>2 DEF terminateChildren, terminateNext, terminated, freePcb
<1>5. NoIoStack'
  BY <1>4, TerminationIsNoIo DEF NoIoStack
<1>6. StackShape'
  BY <1>1, <1>3, <1>4 DEF StackShape, Running
<1>7. TerminationSparesIo'
  BY <1>3, <1>4, StillSpared
<1>8. DevicesInPhase'
  BY <1>2, <1>3, <1>5, DevicesUntouched DEF IoInv
<1>9. WaitersOnValues' /\ IoResultDelivered'
  BY <1>3, <1>4 DEF IoInv, WaitersOnValues, Blocked, IoResultDelivered
<1> QED
  BY <1>6, <1>7, <1>8, <1>9 DEF IoInv

-----------------------------------------------------------------------------
(* The devices, the scheduler and the timers *)

(* The next process is dispatched; it is not blocked.                      *)
LEMMA IoDispatch == ASSUME IInv, IoInv, dispatch PROVE IoInv'
<1> DEFINE p == Head(g_ready_queue)
<1>1. TypeOK /\ ListsExclusive /\ kcall = <<CallScheduler>>
  BY RunningStack DEF dispatch, IInv, IoInv
<1>2. /\ g_ready_queue # <<>> /\ g_ready_queue' = Tail(g_ready_queue)
      /\ p_s' = [p_s EXCEPT ![p] = NoContext] \/ UNCHANGED p_s
      /\ kcall' = <<>>
      /\ UNCHANGED <<s_procq, p_semAdd, semaphore, waiting_process, device>>
  BY DEF dispatch, schedUnchanged, ioVars
<1>3. g_ready_queue \in Seq(Pcb) /\ IsInjective(g_ready_queue)
  BY <1>1 DEF TypeOK, ListsExclusive
<1>4. p \in Pcb /\ Ready = Ready' \cup {p} /\ p \notin Ready'
  BY <1>2, <1>3, TailQueue DEF Ready
<1> HIDE DEF p
<1>5. p \notin Blocked /\ \A r \in Pcb \ {p} : p_s'[r] = p_s[r]
  BY <1>1, <1>2, <1>4 DEF ListsExclusive, TypeOK
<1>6. NoIoStack /\ NoIoStack'
  BY <1>1, <1>2, OtherStacks DEF NoIoStack
<1>7. StackShape' /\ TerminationSparesIo'
  BY <1>2, EmptyQueue DEF StackShape, TerminationSparesIo
<1>8. DevicesInPhase'
  <2>1. \A r \in Blocked : p_s'[r].call = p_s[r].call
    BY <1>5 DEF Blocked
  <2> QED
    BY <1>2, <1>6, <2>1, DevicesUntouched DEF IoInv
<1>9. WaitersOnValues'
  BY <1>2, <1>5 DEF IoInv, WaitersOnValues, Blocked
<1>10. IoResultDelivered'
  <2>1. Ready \subseteq Pcb
    BY <1>3 DEF Ready, ToSet
  <2> QED
    BY <1>4, <1>5, <2>1 DEF IoInv, IoResultDelivered
<1> QED
  BY <1>7, <1>8, <1>9, <1>10 DEF IoInv

(* The end of the time slice saves the current process with call INT.      *)
LEMMA IoTimerInUser == ASSUME IInv, IoInv, timerInUser PROVE IoInv'
<1> DEFINE p == g_current_process
<1>1. TypeOK /\ ListsExclusive /\ p \in Pcb /\ cpu # "kernel"
  BY UserIsLive DEF timerInUser, IInv
<1>2. /\ cpu' = "kernel"
      /\ p_s' = [p_s EXCEPT ![p] = [NoContext EXCEPT !.call = "INT"]]
      /\ g_ready_queue' = Append(g_ready_queue, p)
      /\ kcall' = <<CallScheduler>>
      /\ UNCHANGED <<s_procq, p_semAdd, semaphore, waiting_process, device>>
  BY DEF timerInUser, schedUnchanged, ioVars
<1>3. g_ready_queue \in Seq(Pcb) /\ Ready' = Ready \cup {p}
  BY <1>1, <1>2, AppendQueue DEF TypeOK, Ready
<1> HIDE DEF p
<1>4. p \notin Blocked /\ (\A r \in Pcb \ {p} : p_s'[r] = p_s[r]) /\ p_s'[p].call = "INT"
  BY <1>1, <1>2 DEF ListsExclusive, TypeOK, NoContext, p
<1>5. kcall = <<>> /\ NoIoStack /\ NoIoStack'
  BY <1>1, <1>2, NoKernelNoStack, OtherStacks DEF IoInv, NoIoStack
<1>6. StackShape'
  BY <1>2, SchedulerStack DEF StackShape
<1>7. TerminationSparesIo'
  <2>1. CallScheduler.fn \notin TermFn
    BY DEF CallScheduler, TermFn
  <2> QED
    BY <1>2, <2>1, NoTermination
<1>8. DevicesInPhase'
  <2>1. \A r \in Blocked : p_s'[r].call = p_s[r].call
    BY <1>4 DEF Blocked
  <2> QED
    BY <1>2, <1>5, <2>1, DevicesUntouched DEF IoInv
<1>9. WaitersOnValues'
  BY <1>2, <1>4 DEF IoInv, WaitersOnValues, Blocked
<1>10. IoResultDelivered'
  <2>1. Ready \subseteq Pcb
    BY <1>3 DEF Ready, ToSet
  <2> QED
    BY <1>3, <1>4, <2>1 DEF IoInv, IoResultDelivered
<1> QED
  BY <1>6, <1>7, <1>8, <1>9, <1>10 DEF IoInv

(* In the idle loop it writes the context of a PCB that is not blocked.    *)
LEMMA IoTimerInIdle == ASSUME IInv, IoInv, timerInIdle PROVE IoInv'
<1> DEFINE p == g_current_process
<1>1. TypeOK /\ ListsExclusive /\ kcall = <<CallScheduler>>
  BY RunningStack DEF timerInIdle, IInv, IoInv
<1>2. /\ g_ready_queue = <<>>
      /\ UNCHANGED <<s_procq, p_semAdd, semaphore, waiting_process, device>>
  BY DEF timerInIdle, ioVars
<1>3. \/ /\ kcall' = <<>> /\ UNCHANGED <<p_s, g_ready_queue>>
      \/ /\ p \in Pcb /\ p_s' = [p_s EXCEPT ![p] = idleLoop]
         /\ g_ready_queue' = <<p>> /\ kcall' = <<CallScheduler>> /\ cpu' = "kernel"
  BY <1>1 DEF timerInIdle, timerWithoutCurrent, timerRevives, TypeOK, Running
<1> HIDE DEF p
<1>4. /\ \A r \in Blocked : r \in Pcb /\ p_s'[r] = p_s[r]
      /\ Ready' = {} \/ (Ready' = {p} /\ p_s'[p].call = "TIMER")
  <2>1. CASE kcall' = <<>> /\ UNCHANGED <<p_s, g_ready_queue>>
    BY <1>2, <2>1, EmptyQueue DEF Ready, Blocked
  <2>2. CASE /\ p \in Pcb /\ p_s' = [p_s EXCEPT ![p] = idleLoop]
             /\ g_ready_queue' = <<p>>
    <3>1. p \notin Blocked /\ Blocked \subseteq Pcb
      BY <1>1 DEF ListsExclusive, Blocked, p
    <3>2. Ready' = {p}
      BY <2>2 DEF Ready, ToSet
    <3> QED
      BY <1>1, <2>2, <3>1, <3>2 DEF TypeOK, idleLoop, NoContext
  <2> QED
    BY <1>3, <2>1, <2>2
<1>5. NoIoStack /\ NoIoStack'
  BY <1>1, <1>3, OtherStacks DEF NoIoStack
<1>6. StackShape'
  BY <1>3, SchedulerStack DEF StackShape
<1>7. TerminationSparesIo'
  <2>1. CallScheduler.fn \notin TermFn
    BY DEF CallScheduler, TermFn
  <2> QED
    BY <1>3, <2>1, NoTermination
<1>8. DevicesInPhase'
  BY <1>2, <1>4, <1>5, DevicesUntouched DEF IoInv
<1>9. WaitersOnValues'
  BY <1>2, <1>4 DEF IoInv, WaitersOnValues, Blocked
<1>10. IoResultDelivered'
  BY <1>4 DEF IoResultDelivered
<1> QED
  BY <1>6, <1>7, <1>8, <1>9, <1>10 DEF IoInv

(* The tick wakes only processes in CLOCKWAIT.                             *)
LEMMA IoSysTimer == ASSUME IInv, IoInv, handleSysTimer PROVE IoInv'
<1> DEFINE q == s_procq[g_pseudo_clock]
<1>1. TypeOK /\ Queues /\ g_pseudo_clock \in SemAddr
  BY InvariantQueues, SemAddrTypes
<1>2. /\ cpu # "kernel" /\ kcall' = kcall
      /\ g_ready_queue' = g_ready_queue \o q
      /\ s_procq' = [s_procq EXCEPT ![g_pseudo_clock] = <<>>]
      /\ p_semAdd' = [p \in Pcb |-> IF p \in ToSet(q) THEN NULL ELSE p_semAdd[p]]
      /\ semaphore' = [semaphore EXCEPT ![g_pseudo_clock] = 0]
      /\ UNCHANGED <<p_s, waiting_process, device, g_current_process>>
  BY ContextTypes DEF handleSysTimer, ioVars
<1>3. q \in Seq(Pcb) /\ g_ready_queue \in Seq(Pcb)
  BY <1>1 DEF TypeOK
<1>4. \A p \in ToSet(q) : p \in Blocked /\ p_semAdd[p] = g_pseudo_clock /\ p \in Pcb
  BY <1>1, QueuedIsBlocked
<1> HIDE DEF q
<1>5. Ready' = Ready \cup ToSet(q)
  BY <1>2, <1>3, ConcatQueue DEF Ready
<1>6. kcall = <<>> /\ NoIoStack /\ NoIoStack'
  BY <1>2, NoKernelNoStack DEF IoInv, NoIoStack
<1>7. StackShape' /\ TerminationSparesIo'
  BY <1>2, <1>6, EmptyQueue DEF StackShape, TerminationSparesIo
<1>8. \A s \in SemAddr \ {g_pseudo_clock} : s_procq'[s] = s_procq[s] /\ semaphore'[s] = semaphore[s]
  BY <1>1, <1>2 DEF TypeOK
<1>9. DevicesInPhase'
  <2>1. \A d \in Dev : /\ mut(d) \in SemAddr \ {g_pseudo_clock}
                       /\ sync(d) \in SemAddr \ {g_pseudo_clock}
    BY AddressesDistinct, SemAddrTypes
  <2> QED
    BY <1>2, <1>6, <1>8, <2>1, DevicesUntouched DEF IoInv
<1>10. WaitersOnValues'
  <2>1. semaphore'[g_pseudo_clock] = 0
    BY <1>1, <1>2 DEF TypeOK
  <2>2. \A s \in UserSem : s \in SemAddr \ {g_pseudo_clock}
    BY AddressesDistinct
  <2>3. \A p \in Blocked' : p \in Blocked /\ p_semAdd'[p] = p_semAdd[p]
    BY <1>2 DEF Blocked
  <2>4. \A s \in UserSem \cup {g_pseudo_clock} : semaphore'[s] \in {0, 1}
    BY <1>8, <2>1, <2>2 DEF IoInv, WaitersOnValues
  <2>5. ASSUME NEW p \in Blocked'
        PROVE  /\ p_semAdd'[p] \in UserSem =>
                    \/ p_s'[p].call = "PASSEREN" /\ semaphore'[p_semAdd'[p]] = 0
                    \/ p_s'[p].call = "VERHOGEN" /\ semaphore'[p_semAdd'[p]] = 1
               /\ p_semAdd'[p] = g_pseudo_clock =>
                    p_s'[p].call = "CLOCKWAIT" /\ semaphore'[g_pseudo_clock] = 0
    BY <1>2, <1>8, <2>1, <2>2, <2>3, <2>5 DEF IoInv, WaitersOnValues
  <2> QED
    BY <2>4, <2>5 DEF WaitersOnValues
<1>11. IoResultDelivered'
  <2>1. \A p \in ToSet(q) : p_s[p].call = "CLOCKWAIT"
    BY <1>4 DEF IoInv, WaitersOnValues
  <2> QED
    BY <1>2, <1>5, <2>1 DEF IoInv, IoResultDelivered
<1> QED
  BY <1>7, <1>9, <1>10, <1>11 DEF IoInv

-----------------------------------------------------------------------------
(* The devices, P and V *)

(* The process for which a system call is executed is there.               *)
LEMMA SyscallCurrent ==
  ASSUME IInv, SyscallStack, cpu = "kernel"
  PROVE  /\ g_current_process \in Live /\ g_current_process \in Pcb
         /\ g_current_process # NULL /\ g_current_process \in Processes
<1>1. /\ g_old_state.at = "user"
      /\ kcall # <<>> /\ kcall[Len(kcall)] # CallScheduler
  <2>1. CASE \E s \in SemAddr : kcall = <<CallPasseren(s)>> \/ kcall = <<CallVerhogen(s)>>
    BY <2>1 DEF SyscallStack, CallPasseren, CallVerhogen, CallScheduler
  <2>2. CASE \E d \in Dev : Asked(d) \/ Claimed(d) \/ Commanded(d)
    BY <2>2 DEF SyscallStack, Asked, Claimed, Commanded, CallPasseren, CallBeginIO, CallScheduler
  <2>3. UserSem \cup {g_pseudo_clock} \subseteq SemAddr
    BY AddressesDistinct
  <2> QED
    BY <2>1, <2>2, <2>3 DEF SyscallStack
<1>2. g_current_process \in Processes
  BY <1>1 DEF IInv, CurrentIsLive, EndsInScheduler
<1> QED
  BY <1>2, NullAssumption DEF Processes, Live

(* A current process that blocks is put into the queue.                    *)
LEMMA BlockCurrent ==
  ASSUME IInv, NEW s \in SemAddr, g_current_process \in Live, Block(s)
  PROVE  /\ p_s' = [p_s EXCEPT ![g_current_process] = g_old_state]
         /\ s_procq' = [s_procq EXCEPT ![s] = Append(s_procq[s], g_current_process)]
         /\ p_semAdd' = [p_semAdd EXCEPT ![g_current_process] = s]
         /\ Blocked' = Blocked \cup {g_current_process}
         /\ g_current_process \notin Blocked /\ g_current_process \notin Ready
         /\ g_current_process' = NULL
         /\ kcall' = <<CallScheduler>>
         /\ UNCHANGED <<cpu, pcbFree_h, g_ready_queue, semaphore>>
<1> DEFINE p == g_current_process
<1>1. TypeOK /\ ListsExclusive
  BY DEF IInv
<1>2. p \in Pcb /\ p # NULL /\ p \notin pcbFree_h
  BY NullAssumption DEF Live
<1>3. SemdAvailable(s)
  BY <1>2, SemdLeft DEF SemdNeverExhausted
<1>4. /\ p_s' = [p_s EXCEPT ![p] = g_old_state]
      /\ pcbFree_h' = pcbFree_h \ {p}
      /\ s_procq' = [s_procq EXCEPT ![s] = Append(s_procq[s], p)]
      /\ p_semAdd' = [p_semAdd EXCEPT ![p] = s]
      /\ g_current_process' = NULL
      /\ kcall' = <<CallScheduler>>
      /\ UNCHANGED <<cpu, g_ready_queue, semaphore>>
  BY <1>2, <1>3 DEF Block, insertBlocked
<1> HIDE DEF p
<1>5. pcbFree_h' = pcbFree_h
  BY <1>2, <1>4
<1>6. Blocked' = Blocked \cup {p}
  BY <1>1, <1>2, <1>4, NullAssumption DEF TypeOK, Blocked
<1>7. p \notin Blocked /\ p \notin Ready
  BY <1>1 DEF ListsExclusive, p
<1> QED
  BY <1>4, <1>5, <1>6, <1>7 DEF p

(* P and V of programs and of CLOCKWAIT.                                   *)
LEMMA IoValueStep ==
  ASSUME IInv, IoInv, SyscallStack, NEW s \in UserSem \cup {g_pseudo_clock},
         kcall = <<CallPasseren(s)>> \/ kcall = <<CallVerhogen(s)>>,
         NEW delta \in {-1, 1},
         \/ s_procq[s] # <<>> /\ Wake(s)
         \/ s_procq[s] = <<>> /\ semaphore[s] + delta \in {0, 1} /\ Count(s, delta)
         \/ /\ Block(s)
            /\ IF s = g_pseudo_clock
               THEN g_old_state.call = "CLOCKWAIT" /\ semaphore[s] = 0
               ELSE \/ g_old_state.call = "PASSEREN" /\ semaphore[s] = 0
                    \/ g_old_state.call = "VERHOGEN" /\ semaphore[s] = 1,
         UNCHANGED <<ioVars, g_old_state>>
  PROVE  IoInv'
<1>1. TypeOK /\ Queues /\ s \in SemAddr /\ ListsExclusive
  BY InvariantQueues, AddressesDistinct DEF IInv
<1>2. /\ NoIoStack /\ kcall # <<>> /\ Tail(kcall) = <<>> /\ cpu = "kernel"
      /\ \A d \in Dev : s \notin {mut(d), sync(d)} /\ mut(d) \in SemAddr /\ sync(d) \in SemAddr
  <2>1. NoIoStack
    BY OtherStacks DEF NoIoStack
  <2>2. kcall # <<>> /\ Tail(kcall) = <<>>
    BY ShortTails
  <2>3. cpu = "kernel"
    BY <2>2 DEF IoInv, StackShape
  <2>4. \A d \in Dev : s \notin {mut(d), sync(d)} /\ mut(d) \in SemAddr /\ sync(d) \in SemAddr
    BY AddressesDistinct, SemAddrTypes
  <2> QED
    BY <2>1, <2>2, <2>3, <2>4
<1>3. UNCHANGED <<waiting_process, device>>
  BY DEF ioVars
<1>4. CASE s_procq[s] # <<>> /\ Wake(s)
  <2> DEFINE h == Head(s_procq[s])
  <2>1. /\ s_procq' = [s_procq EXCEPT ![s] = Tail(s_procq[s])]
        /\ p_semAdd' = [p_semAdd EXCEPT ![h] = NULL]
        /\ g_ready_queue' = Append(g_ready_queue, h)
        /\ kcall' = <<>>
        /\ UNCHANGED <<semaphore, p_s, pcbFree_h, g_current_process, cpu>>
    BY <1>2, <1>4 DEF Wake, removeBlocked, Return
  <2>2. h \in ToSet(s_procq[s]) /\ h \in Pcb /\ h \in Blocked /\ p_semAdd[h] = s
    BY <1>1, <1>4, TailQueue, QueuedIsBlocked DEF TypeOK
  <2> HIDE DEF h
  <2>3. NoIoStack' /\ StackShape' /\ TerminationSparesIo'
    BY <2>1, OtherStacks, EmptyQueue DEF NoIoStack, StackShape, TerminationSparesIo
  <2>4. \A x \in SemAddr \ {s} : s_procq'[x] = s_procq[x] /\ semaphore'[x] = semaphore[x]
    BY <1>1, <2>1 DEF TypeOK
  <2>5. DevicesInPhase'
    BY <1>2, <1>3, <2>1, <2>3, <2>4, DevicesUntouched DEF IoInv
  <2>6. Blocked' \subseteq Blocked /\ \A p \in Blocked' : p_semAdd'[p] = p_semAdd[p]
    BY <1>1, <2>1 DEF Blocked, TypeOK
  <2>7. WaitersOnValues'
    BY <2>1, <2>6 DEF IoInv, WaitersOnValues
  <2>8. IoResultDelivered'
    <3>1. Ready' = Ready \cup {h}
      BY <1>1, <2>1, <2>2, AppendQueue DEF Ready, TypeOK
    <3>2. p_s[h].call # "DOIO"
      BY <2>2 DEF IoInv, WaitersOnValues
    <3> QED
      BY <2>1, <3>1, <3>2 DEF IoInv, IoResultDelivered
  <2> QED
    BY <2>3, <2>5, <2>7, <2>8 DEF IoInv
<1>5. CASE s_procq[s] = <<>> /\ semaphore[s] + delta \in {0, 1} /\ Count(s, delta)
  <2>1. /\ semaphore' = [semaphore EXCEPT ![s] = semaphore[s] + delta]
        /\ kcall' = <<>>
        /\ UNCHANGED <<s_procq, p_semAdd, g_ready_queue, p_s, pcbFree_h, g_current_process, cpu>>
    BY <1>2, <1>5 DEF Count, Return, queueVars
  <2>2. NoIoStack' /\ StackShape' /\ TerminationSparesIo'
    BY <2>1, OtherStacks, EmptyQueue DEF NoIoStack, StackShape, TerminationSparesIo
  <2>3. /\ \A x \in SemAddr \ {s} : semaphore'[x] = semaphore[x]
        /\ semaphore'[s] \in {0, 1}
    BY <1>1, <1>5, <2>1 DEF TypeOK
  <2>4. DevicesInPhase'
    BY <1>2, <1>3, <2>1, <2>2, <2>3, DevicesUntouched DEF IoInv
  <2>5. \A p \in Blocked : p_semAdd[p] # s
    <3> TAKE p \in Blocked
    <3>1. p \in Pcb /\ ToSet(s_procq[s]) = {}
      BY <1>5, EmptyQueue DEF Blocked
    <3> QED
      BY <1>1, <3>1 DEF Queues, SemAddMatchesQueue
  <2>6. Blocked' = Blocked /\ UserSem \cup {g_pseudo_clock} \subseteq SemAddr
    BY <2>1, AddressesDistinct DEF Blocked
  <2>7. WaitersOnValues'
    BY <2>1, <2>3, <2>5, <2>6 DEF IoInv, WaitersOnValues
  <2>8. IoResultDelivered'
    BY <2>1 DEF IoInv, IoResultDelivered, Ready
  <2> QED
    BY <2>2, <2>4, <2>7, <2>8 DEF IoInv
<1>6. CASE /\ Block(s)
           /\ IF s = g_pseudo_clock
               THEN g_old_state.call = "CLOCKWAIT" /\ semaphore[s] = 0
               ELSE \/ g_old_state.call = "PASSEREN" /\ semaphore[s] = 0
                    \/ g_old_state.call = "VERHOGEN" /\ semaphore[s] = 1
  <2> DEFINE p == g_current_process
  <2>1. p \in Live /\ p \in Pcb
    BY <1>2, SyscallCurrent
  <2>2. /\ p_s' = [p_s EXCEPT ![p] = g_old_state]
        /\ s_procq' = [s_procq EXCEPT ![s] = Append(s_procq[s], p)]
        /\ p_semAdd' = [p_semAdd EXCEPT ![p] = s]
        /\ Blocked' = Blocked \cup {p}
        /\ p \notin Blocked /\ p \notin Ready
        /\ kcall' = <<CallScheduler>>
        /\ UNCHANGED <<cpu, pcbFree_h, g_ready_queue, semaphore>>
    BY <1>1, <1>6, <2>1, BlockCurrent
  <2> HIDE DEF p
  <2>3. NoIoStack' /\ StackShape' /\ TerminationSparesIo'
    <3>1. CallScheduler.fn \notin TermFn
      BY DEF CallScheduler, TermFn
    <3> QED
      BY <1>2, <2>2, <3>1, OtherStacks, SchedulerStack, NoTermination DEF NoIoStack, StackShape
  <2>4. /\ \A x \in SemAddr \ {s} : s_procq'[x] = s_procq[x]
        /\ \A r \in Pcb \ {p} : p_s'[r] = p_s[r] /\ p_semAdd'[r] = p_semAdd[r]
        /\ p_s'[p] = g_old_state /\ p_semAdd'[p] = s
    BY <1>1, <2>1, <2>2 DEF TypeOK
  <2>5. \A r \in Blocked : p_s'[r] = p_s[r] /\ p_semAdd'[r] = p_semAdd[r]
    BY <2>2, <2>4 DEF Blocked
  <2>6. DevicesInPhase'
    BY <1>2, <1>3, <2>2, <2>3, <2>4, <2>5, DevicesUntouched DEF IoInv
  <2>7. WaitersOnValues'
    <3>1. s = g_pseudo_clock <=> s \notin UserSem
      BY AddressesDistinct
    <3> QED
      BY <1>6, <2>2, <2>4, <2>5, <3>1 DEF IoInv, WaitersOnValues
  <2>8. IoResultDelivered'
    <3>1. Ready \subseteq Pcb /\ Ready' = Ready
      BY <1>1, <2>2 DEF Ready, ToSet, TypeOK
    <3> QED
      BY <2>2, <2>4, <3>1 DEF IoInv, IoResultDelivered
  <2> QED
    BY <2>3, <2>6, <2>7, <2>8 DEF IoInv
<1> QED
  BY <1>4, <1>5, <1>6

-----------------------------------------------------------------------------
(* A DOIO and the interrupt that ends it *)

(* The other devices do not notice the steps of an operation.              *)
LEMMA OtherDevices ==
  ASSUME IInv, DevicesInPhase, NEW d \in Dev,
         kcall = <<>> \/ kcall = <<CallScheduler>> \/ IoStack(kcall, d, g_current_process),
         kcall' = <<>> \/ kcall' = <<CallScheduler>> \/ IoStack(kcall', d, g_current_process'),
         \A e \in Dev \ {d} :
           /\ waiting_process'[e] = waiting_process[e] /\ device'[e] = device[e]
           /\ s_procq'[mut(e)] = s_procq[mut(e)] /\ s_procq'[sync(e)] = s_procq[sync(e)]
           /\ semaphore'[mut(e)] = semaphore[mut(e)] /\ semaphore'[sync(e)] = semaphore[sync(e)],
         \A p \in Blocked : p_s'[p].call = p_s[p].call,
         s_procq'[mut(d)] = <<>>, semaphore'[sync(d)] = 0, (DeviceFree(d) \/ DeviceUsed(d))'
  PROVE  DevicesInPhase'
<1> SUFFICES ASSUME NEW e \in Dev \ {d}
             PROVE  /\ s_procq'[mut(e)] = <<>> /\ semaphore'[sync(e)] = 0
                    /\ (DeviceFree(e) \/ DeviceUsed(e))'
  BY DEF DevicesInPhase
<1>1. ASSUME NEW k, NEW c, NEW b, IoStack(k, d, c)
      PROVE  ~ IoStack(k, e, b)
  <2>1. \/ k = <<CallPasseren(mut(d)), CallBeginIO(d, c)>>
        \/ k = <<CallBeginIO(d, c)>>
        \/ k = <<CallPasseren(sync(d))>>
        \/ k = <<CallVerhogen(sync(d)), CallReleaseDevice(d)>>
        \/ k = <<CallReleaseDevice(d)>>
    BY <1>1 DEF IoStack
  <2>2. e # d
    OBVIOUS
  <2>3. CASE k = <<CallPasseren(mut(d)), CallBeginIO(d, c)>>
    BY <2>2, <2>3, AddressesDistinct
       DEF IoStack, CallPasseren, CallVerhogen, CallBeginIO, CallReleaseDevice
  <2>4. CASE k = <<CallBeginIO(d, c)>>
    BY <2>2, <2>4, IoStacksDistinct
  <2>5. CASE k = <<CallPasseren(sync(d))>>
    BY <2>2, <2>5, IoStacksDistinct
  <2>6. CASE k = <<CallVerhogen(sync(d)), CallReleaseDevice(d)>>
    BY <2>2, <2>6, IoStacksDistinct
  <2>7. CASE k = <<CallReleaseDevice(d)>>
    BY <2>2, <2>7, IoStacksDistinct
  <2> QED
    BY <2>1, <2>3, <2>4, <2>5, <2>6, <2>7
<1>2. ~ IoStack(kcall, e, g_current_process) /\ ~ IoStack(kcall', e, g_current_process')
  BY <1>1, OtherStacks
<1> QED
  BY <1>2, DeviceUntouched

(* A step that wakes nobody in the queues of the programs and of the clock. *)
LEMMA ValuesUntouched ==
  ASSUME IInv, IoInv,
         \A s \in UserSem \cup {g_pseudo_clock} : semaphore'[s] = semaphore[s],
         \A p \in Blocked' : \/ /\ p \in Blocked /\ p_semAdd'[p] = p_semAdd[p]
                                /\ p_s'[p].call = p_s[p].call
                             \/ \E d \in Dev : p_semAdd'[p] \in {mut(d), sync(d)}
  PROVE  WaitersOnValues'
<1>1. \A d \in Dev : mut(d) \notin UserSem \cup {g_pseudo_clock} /\ sync(d) \notin UserSem \cup {g_pseudo_clock}
  BY AddressesDistinct
<1> SUFFICES ASSUME NEW p \in Blocked'
             PROVE  /\ p_semAdd'[p] \in UserSem =>
                         \/ p_s'[p].call = "PASSEREN" /\ semaphore'[p_semAdd'[p]] = 0
                         \/ p_s'[p].call = "VERHOGEN" /\ semaphore'[p_semAdd'[p]] = 1
                    /\ p_semAdd'[p] = g_pseudo_clock =>
                         p_s'[p].call = "CLOCKWAIT" /\ semaphore'[g_pseudo_clock] = 0
  BY DEF IoInv, WaitersOnValues
<1> QED
  BY <1>1 DEF IoInv, WaitersOnValues

(* The stacks of an operation terminate nothing.                           *)
LEMMA IoStackSpares ==
  ASSUME NEW d, kcall' = <<>> \/ kcall' = <<CallScheduler>> \/ IoStack(kcall', d, g_current_process')
  PROVE  TerminationSparesIo'
<1>1. /\ CallPasseren(mut(d)).fn \notin TermFn /\ CallPasseren(sync(d)).fn \notin TermFn
      /\ CallVerhogen(sync(d)).fn \notin TermFn /\ CallReleaseDevice(d).fn \notin TermFn
      /\ CallBeginIO(d, g_current_process').fn \notin TermFn /\ CallScheduler.fn \notin TermFn
  BY DEF CallPasseren, CallVerhogen, CallReleaseDevice, CallBeginIO, CallScheduler, TermFn
<1> QED
  BY <1>1, NoTermination DEF IoStack

(* DOIO starts when the mutex of the device is free.                       *)
LEMMA IoAsk == ASSUME IoClient, IInv, IoInv, sysDoIO PROVE IoInv'
<1>1. PICK d \in Dev : /\ semaphore[mut(d)] = 1
                       /\ Syscall("DOIO", <<CallPasseren(mut(d)), CallBeginIO(d, g_current_process)>>)
  BY DEF sysDoIO, IoClient
<1>2. /\ cpu = "user" /\ cpu' = "kernel"
      /\ kcall' = <<CallPasseren(mut(d)), CallBeginIO(d, g_current_process)>>
      /\ g_old_state' = [NoContext EXCEPT !.call = "DOIO"]
      /\ UNCHANGED <<s_procq, p_semAdd, g_ready_queue, waiting_process, device, p_s, semaphore,
                     g_current_process>>
  BY <1>1 DEF Syscall, queueVars, ioVars
<1>3. kcall = <<>>
  BY <1>2, NoKernelNoStack DEF IoInv
<1>4. IoStack(kcall', d, g_current_process')
  BY <1>2 DEF IoStack
<1>5. Asked(d)' /\ ~ Claimed(d)' /\ ~ Commanded(d)' /\ ~ Signalling(d)' /\ ~ Releasing(d)'
  BY <1>2, <1>4, IoStacksDistinct DEF Asked, Claimed, Commanded, Signalling, Releasing
<1>6. DeviceFree(d)
  BY <1>1 DEF IoInv, DevicesInPhase, DeviceUsed
<1>7. DeviceFree(d)'
  BY <1>1, <1>2, <1>5, <1>6 DEF DeviceFree
<1>8. DevicesInPhase'
  BY <1>2, <1>3, <1>4, <1>7, OtherDevices DEF IoInv, DevicesInPhase
<1>9. StackShape'
  <2>1. SyscallStack'
    BY <1>2, <1>5 DEF SyscallStack, NoContext
  <2> QED
    BY <1>2, <2>1 DEF StackShape
<1>10. TerminationSparesIo'
  BY <1>4, IoStackSpares
<1>11. WaitersOnValues' /\ IoResultDelivered'
  BY <1>2 DEF IoInv, WaitersOnValues, IoResultDelivered, Blocked, Ready
<1> QED
  BY <1>8, <1>9, <1>10, <1>11 DEF IoInv

(* P on the mutex takes it at once.                                        *)
LEMMA IoClaim ==
  ASSUME IInv, IoInv, sysPasseren, SyscallStack, NEW d \in Dev, Asked(d)
  PROVE  IoInv'
<1> DEFINE s == mut(d)
<1>1. /\ TypeOK /\ s \in SemAddr /\ cpu = "kernel"
      /\ Head(kcall).sem = s /\ Tail(kcall) = <<CallBeginIO(d, g_current_process)>>
  <2>1. Head(kcall) = CallPasseren(s) /\ Tail(kcall) = <<CallBeginIO(d, g_current_process)>>
    BY ShortTails DEF Asked
  <2> QED
    BY <2>1, SemAddrTypes DEF IInv, sysPasseren, Running, CallPasseren
<1>2. IoStack(kcall, d, g_current_process)
  BY DEF Asked, IoStack
<1>3. Asked(d) /\ ~ Claimed(d) /\ DeviceFree(d)
  BY <1>2, IoStacksDistinct DEF Asked, Claimed, IoInv, DevicesInPhase, DeviceUsed
<1>4. s_procq[s] = <<>> /\ semaphore[s] = 1
  BY <1>3 DEF IoInv, DevicesInPhase, DeviceFree
<1>5. Count(s, -1) /\ UNCHANGED <<ioVars, g_old_state>>
  BY <1>1, <1>4 DEF sysPasseren
<1>6. /\ semaphore' = [semaphore EXCEPT ![s] = 0]
      /\ kcall' = <<CallBeginIO(d, g_current_process)>>
      /\ UNCHANGED <<s_procq, p_semAdd, g_ready_queue, p_s, g_current_process, cpu,
                     waiting_process, device, g_old_state>>
  BY <1>1, <1>4, <1>5 DEF Count, Return, queueVars, ioVars
<1> HIDE DEF s
<1>7. IoStack(kcall', d, g_current_process')
  BY <1>6 DEF IoStack
<1>8. ~ Asked(d)' /\ Claimed(d)' /\ ~ Commanded(d)' /\ ~ Signalling(d)' /\ ~ Releasing(d)'
  BY <1>6, <1>7, IoStacksDistinct DEF Asked, Claimed, Commanded, Signalling, Releasing
<1>9. semaphore'[s] = 0 /\ \A x \in SemAddr \ {s} : semaphore'[x] = semaphore[x]
  BY <1>1, <1>6 DEF TypeOK
<1>10. /\ \A e \in Dev : sync(e) \in SemAddr \ {s}
       /\ \A e \in Dev \ {d} : mut(e) \in SemAddr \ {s}
       /\ \A x \in UserSem \cup {g_pseudo_clock} : x \in SemAddr \ {s}
  BY AddressesDistinct, SemAddrTypes DEF s
<1>11. DeviceFree(d)' /\ semaphore'[sync(d)] = 0
  BY <1>3, <1>6, <1>8, <1>9, <1>10 DEF DeviceFree, IoInv, DevicesInPhase, s
<1>12. DevicesInPhase'
  BY <1>2, <1>4, <1>6, <1>7, <1>9, <1>10, <1>11, OtherDevices DEF IoInv, DevicesInPhase, s
<1>13. StackShape'
  <2>1. g_old_state.call = "DOIO" /\ g_old_state.at = "user"
    <3>1. Head(kcall) = CallPasseren(mut(d))
      BY ShortTails DEF Asked
    <3>2. \A x \in UserSem \cup {g_pseudo_clock} : kcall # <<CallPasseren(x)>> /\ kcall # <<CallVerhogen(x)>>
      BY <1>2, OtherStacks
    <3> QED
      BY <3>2 DEF SyscallStack
  <2>2. SyscallStack'
    BY <1>6, <1>8, <2>1 DEF SyscallStack
  <2> QED
    BY <1>1, <1>6, <2>2 DEF StackShape
<1>14. TerminationSparesIo'
  BY <1>7, IoStackSpares
<1>15. WaitersOnValues'
  BY <1>6, <1>9, <1>10, ValuesUntouched DEF Blocked
<1>16. IoResultDelivered'
  BY <1>6 DEF IoInv, IoResultDelivered, Ready
<1> QED
  BY <1>12, <1>13, <1>14, <1>15, <1>16 DEF IoInv

(* beginIO gives the command to an idle device.                            *)
LEMMA IoBegin == ASSUME IInv, IoInv, beginIO PROVE IoInv'
<1>1. Running("beginIO") /\ TypeOK /\ StackShape
  BY DEF beginIO, IInv, IoInv
<1>2. SyscallStack /\ cpu = "kernel"
  BY <1>1, RunningStack DEF Running
<1>3. PICK d \in Dev : Claimed(d)
  BY <1>1, RunningStack
<1> DEFINE p == g_current_process
<1>4. /\ Head(kcall) = CallBeginIO(d, p) /\ Tail(kcall) = <<>>
      /\ Head(kcall).dev = d /\ Head(kcall).pcb = p
  BY <1>3, ShortTails DEF Claimed, CallBeginIO
<1>5. p \in Pcb /\ p # NULL
  BY <1>2, SyscallCurrent
<1>6. /\ waiting_process' = [waiting_process EXCEPT ![d] = p]
      /\ device' = [device EXCEPT ![d] = "busy"]
      /\ kcall' = <<CallPasseren(sync(d))>>
      /\ UNCHANGED <<s_procq, p_semAdd, g_ready_queue, p_s, semaphore, g_current_process,
                     g_old_state, cpu>>
  BY <1>4, ShortTails DEF beginIO, queueVars
<1>7. IoStack(kcall, d, g_current_process) /\ IoStack(kcall', d, g_current_process')
  BY <1>3, <1>6 DEF Claimed, IoStack
<1>8. Claimed(d) /\ DeviceFree(d)
  BY <1>3 DEF IoInv, DevicesInPhase, DeviceUsed
<1>9. ~ Asked(d)' /\ ~ Claimed(d)' /\ Commanded(d)' /\ ~ Signalling(d)' /\ ~ Releasing(d)'
  BY <1>6, <1>7, IoStacksDistinct DEF Asked, Claimed, Commanded, Signalling, Releasing
<1>10. /\ waiting_process'[d] = p /\ device'[d] = "busy"
       /\ \A e \in Dev \ {d} : waiting_process'[e] = waiting_process[e] /\ device'[e] = device[e]
  BY <1>1, <1>6 DEF TypeOK
<1>11. DeviceUsed(d)'
  BY <1>5, <1>6, <1>8, <1>9, <1>10 DEF DeviceUsed, DeviceFree
<1>12. DevicesInPhase'
  BY <1>6, <1>7, <1>10, <1>11, OtherDevices DEF IoInv, DevicesInPhase
<1>13. StackShape'
  <2>1. g_old_state.call = "DOIO" /\ g_old_state.at = "user"
    <3>1. \A x \in UserSem \cup {g_pseudo_clock} : kcall # <<CallPasseren(x)>> /\ kcall # <<CallVerhogen(x)>>
      BY <1>7, OtherStacks
    <3> QED
      BY <1>2, <3>1 DEF SyscallStack
  <2>2. SyscallStack'
    BY <1>6, <1>9, <2>1 DEF SyscallStack
  <2> QED
    BY <1>2, <1>6, <2>2 DEF StackShape
<1>14. TerminationSparesIo'
  BY <1>7, IoStackSpares
<1>15. WaitersOnValues' /\ IoResultDelivered'
  BY <1>6 DEF IoInv, WaitersOnValues, IoResultDelivered, Blocked, Ready
<1> QED
  BY <1>12, <1>13, <1>14, <1>15 DEF IoInv

(* P on the sync semaphore, which is 0, blocks the caller.                 *)
LEMMA IoWait ==
  ASSUME IInv, IoInv, sysPasseren, SyscallStack, NEW d \in Dev, Commanded(d)
  PROVE  IoInv'
<1> DEFINE s == sync(d)
           p == g_current_process
<1>1. /\ TypeOK /\ s \in SemAddr /\ cpu = "kernel" /\ Head(kcall).sem = s
  <2>1. Head(kcall) = CallPasseren(s)
    BY ShortTails DEF Commanded
  <2> QED
    BY <2>1, SemAddrTypes DEF IInv, sysPasseren, Running, CallPasseren
<1>2. IoStack(kcall, d, g_current_process)
  BY DEF Commanded, IoStack
<1>3. /\ ~ Signalling(d) /\ ~ Releasing(d) /\ DeviceUsed(d)
      /\ s_procq[mut(d)] = <<>> /\ semaphore[s] = 0
  BY <1>2, IoStacksDistinct DEF Commanded, Signalling, Releasing, IoInv, DevicesInPhase, DeviceFree
<1>4. Block(s) /\ UNCHANGED <<waiting_process, device, g_old_state>>
  BY <1>1, <1>3 DEF sysPasseren, ioVars
<1>5. p \in Live /\ p \in Pcb /\ p # NULL
  BY <1>1, SyscallCurrent
<1>6. s_procq[s] = <<>> /\ waiting_process[d] = p /\ device[d] # "idle" /\ semaphore[mut(d)] = 0
  BY <1>3 DEF DeviceUsed
<1>7. g_old_state.call = "DOIO"
  <2>1. \A x \in UserSem \cup {g_pseudo_clock} : kcall # <<CallPasseren(x)>> /\ kcall # <<CallVerhogen(x)>>
    BY <1>2, OtherStacks
  <2> QED
    BY <2>1 DEF SyscallStack
<1>8. /\ p_s' = [p_s EXCEPT ![p] = g_old_state]
      /\ s_procq' = [s_procq EXCEPT ![s] = Append(s_procq[s], p)]
      /\ p_semAdd' = [p_semAdd EXCEPT ![p] = s]
      /\ Blocked' = Blocked \cup {p}
      /\ p \notin Blocked /\ p \notin Ready
      /\ kcall' = <<CallScheduler>>
      /\ UNCHANGED <<cpu, pcbFree_h, g_ready_queue, semaphore>>
  BY <1>1, <1>4, <1>5, BlockCurrent
<1>9. mut(d) \in SemAddr \ {s} /\ \A e \in Dev \ {d} : mut(e) \in SemAddr \ {s} /\ sync(e) \in SemAddr \ {s}
  BY AddressesDistinct, SemAddrTypes
<1> HIDE DEF s, p
<1>10. /\ s_procq'[s] = <<p>> /\ p_s'[p].call = "DOIO" /\ p_semAdd'[p] = s
       /\ \A x \in SemAddr \ {s} : s_procq'[x] = s_procq[x]
       /\ \A r \in Pcb \ {p} : p_s'[r] = p_s[r] /\ p_semAdd'[r] = p_semAdd[r]
  BY <1>1, <1>5, <1>6, <1>7, <1>8 DEF TypeOK
<1>11. \A r \in Blocked : p_s'[r] = p_s[r] /\ p_semAdd'[r] = p_semAdd[r]
  BY <1>8, <1>10 DEF Blocked
<1>12. ~ Asked(d)' /\ ~ Claimed(d)' /\ ~ Commanded(d)' /\ ~ Signalling(d)' /\ ~ Releasing(d)'
  BY <1>8, OtherStacks DEF IoStack, Asked, Claimed, Commanded, Signalling, Releasing
<1>13. DeviceUsed(d)' /\ s_procq'[mut(d)] = <<>> /\ semaphore'[sync(d)] = 0
  BY <1>3, <1>4, <1>5, <1>6, <1>8, <1>9, <1>10, <1>12 DEF DeviceUsed, s
<1>14. DevicesInPhase'
  BY <1>2, <1>4, <1>8, <1>9, <1>10, <1>11, <1>13, OtherDevices DEF IoInv
<1>15. StackShape' /\ TerminationSparesIo'
  BY <1>1, <1>8, SchedulerStack, IoStackSpares DEF StackShape
<1>16. WaitersOnValues'
  BY <1>8, <1>10, <1>11, ValuesUntouched DEF s
<1>17. IoResultDelivered'
  <2>1. Ready \subseteq Pcb /\ Ready' = Ready
    BY <1>1, <1>8 DEF Ready, ToSet, TypeOK
  <2> QED
    BY <1>8, <1>10, <2>1 DEF IoInv, IoResultDelivered
<1> QED
  BY <1>14, <1>15, <1>16, <1>17 DEF IoInv

(* The interrupt of a device comes when its user waits for it.             *)
LEMMA IoInterrupt ==
  ASSUME IInv, IoInv, NEW d \in Dev, handleDeviceInt(d)
  PROVE  IoInv'
<1> DEFINE w == waiting_process[d]
<1>1. TypeOK /\ kcall = <<>> /\ NoIoStack
  BY NoKernelNoStack, ContextTypes DEF handleDeviceInt, IInv, IoInv
<1>2. ~ Commanded(d) /\ ~ Releasing(d) /\ device[d] \in {"ok", "err"}
  BY <1>1, NoIoPhases DEF handleDeviceInt
<1>3. DeviceUsed(d) /\ semaphore[sync(d)] = 0 /\ s_procq[mut(d)] = <<>>
  BY <1>2 DEF IoInv, DevicesInPhase, DeviceFree
<1>4. w # NULL /\ semaphore[mut(d)] = 0
  BY <1>3 DEF DeviceUsed
<1>5. /\ w \in Pcb /\ w \in Blocked /\ s_procq[sync(d)] = <<w>> /\ p_s[w].call = "DOIO"
      /\ w \notin Ready
  BY <1>2, <1>4, IoWaiter DEF IoInv
<1>6. /\ p_s' = [p_s EXCEPT ![w].v0 = device[d]]
      /\ cpu' = "kernel"
      /\ kcall' = <<CallVerhogen(sync(d)), CallReleaseDevice(d)>>
      /\ device' = [device EXCEPT ![d] = "idle"]
      /\ UNCHANGED <<s_procq, p_semAdd, g_ready_queue, waiting_process, semaphore, g_current_process>>
  BY <1>3, <1>4 DEF handleDeviceInt, endIO, setReturnValue, queueVars
<1> HIDE DEF w
<1>7. IoStack(kcall', d, g_current_process')
  BY <1>6 DEF IoStack
<1>8. ~ Asked(d)' /\ ~ Claimed(d)' /\ ~ Commanded(d)' /\ Signalling(d)' /\ ~ Releasing(d)'
  BY <1>6, <1>7, IoStacksDistinct DEF Asked, Claimed, Commanded, Signalling, Releasing
<1>9. /\ device'[d] = "idle" /\ \A e \in Dev \ {d} : device'[e] = device[e]
      /\ p_s'[w].v0 = device[d] /\ \A p \in Pcb : p_s'[p].call = p_s[p].call
      /\ \A p \in Pcb \ {w} : p_s'[p] = p_s[p]
  BY <1>1, <1>5, <1>6 DEF TypeOK, Context
<1>10. DeviceUsed(d)'
  BY <1>2, <1>4, <1>5, <1>6, <1>8, <1>9 DEF DeviceUsed, w
<1>11. DevicesInPhase'
  BY <1>1, <1>3, <1>6, <1>7, <1>9, <1>10, OtherDevices DEF IoInv, Blocked
<1>12. StackShape' /\ TerminationSparesIo'
  BY <1>6, <1>7, <1>8, IoStackSpares DEF StackShape, InterruptStack
<1>13. WaitersOnValues'
  BY <1>6, <1>9 DEF IoInv, WaitersOnValues, Blocked
<1>14. IoResultDelivered'
  <2>1. Ready \subseteq Pcb /\ Ready' = Ready
    BY <1>1, <1>6 DEF Ready, ToSet, TypeOK
  <2> QED
    BY <1>5, <1>9, <2>1 DEF IoInv, IoResultDelivered
<1> QED
  BY <1>11, <1>12, <1>13, <1>14 DEF IoInv

(* V on the sync semaphore wakes the process that waits for the device.    *)
LEMMA IoSignal ==
  ASSUME IInv, IoInv, sysVerhogen, NEW d \in Dev, Signalling(d)
  PROVE  IoInv'
<1> DEFINE s == sync(d)
           w == waiting_process[d]
<1>1. /\ TypeOK /\ ListsExclusive /\ s \in SemAddr /\ cpu = "kernel"
      /\ Head(kcall).sem = s /\ Tail(kcall) = <<CallReleaseDevice(d)>>
  <2>1. Head(kcall) = CallVerhogen(s) /\ Tail(kcall) = <<CallReleaseDevice(d)>>
    BY ShortTails DEF Signalling
  <2> QED
    BY <2>1, SemAddrTypes DEF IInv, sysVerhogen, Running, CallVerhogen
<1>2. IoStack(kcall, d, g_current_process)
  BY DEF Signalling, IoStack
<1>3. /\ ~ Commanded(d) /\ ~ Releasing(d) /\ DeviceUsed(d)
      /\ s_procq[mut(d)] = <<>> /\ semaphore[s] = 0
  BY <1>2, IoStacksDistinct DEF Commanded, Signalling, Releasing, IoInv, DevicesInPhase, DeviceFree
<1>4. w # NULL /\ device[d] = "idle" /\ semaphore[mut(d)] = 0 /\ p_s[w].v0 \in {"ok", "err"}
  BY <1>3 DEF DeviceUsed
<1>5. w \in Pcb /\ s_procq[s] = <<w>> /\ p_semAdd[w] = s /\ p_s[w].call = "DOIO"
  BY <1>3, <1>4, IoWaiter DEF IoInv
<1>6. Head(s_procq[s]) = w /\ Tail(s_procq[s]) = <<>> /\ s_procq[s] # <<>>
  BY <1>5, ShortTails
<1>7. Wake(s) /\ UNCHANGED <<waiting_process, device, g_old_state>>
  BY <1>1, <1>3, <1>6 DEF sysVerhogen, ioVars
<1>8. /\ s_procq' = [s_procq EXCEPT ![s] = <<>>]
      /\ p_semAdd' = [p_semAdd EXCEPT ![w] = NULL]
      /\ g_ready_queue' = Append(g_ready_queue, w)
      /\ kcall' = <<CallReleaseDevice(d)>>
      /\ UNCHANGED <<semaphore, p_s, pcbFree_h, g_current_process, cpu>>
  BY <1>1, <1>6, <1>7 DEF Wake, removeBlocked, Return
<1>9. mut(d) \in SemAddr \ {s} /\ \A e \in Dev \ {d} : mut(e) \in SemAddr \ {s} /\ sync(e) \in SemAddr \ {s}
  BY AddressesDistinct, SemAddrTypes
<1> HIDE DEF s, w
<1>10. s_procq'[s] = <<>> /\ \A x \in SemAddr \ {s} : s_procq'[x] = s_procq[x]
  BY <1>1, <1>8 DEF TypeOK
<1>11. IoStack(kcall', d, g_current_process')
  BY <1>8 DEF IoStack
<1>12. ~ Asked(d)' /\ ~ Claimed(d)' /\ ~ Commanded(d)' /\ ~ Signalling(d)' /\ Releasing(d)'
  BY <1>8, <1>11, IoStacksDistinct DEF Asked, Claimed, Commanded, Signalling, Releasing
<1>13. DeviceUsed(d)' /\ s_procq'[mut(d)] = <<>> /\ semaphore'[sync(d)] = 0
  BY <1>3, <1>4, <1>7, <1>8, <1>9, <1>10, <1>12 DEF DeviceUsed, s, w
<1>14. DevicesInPhase'
  BY <1>2, <1>7, <1>8, <1>9, <1>10, <1>11, <1>13, OtherDevices DEF IoInv
<1>15. StackShape' /\ TerminationSparesIo'
  BY <1>1, <1>8, <1>11, <1>12, IoStackSpares DEF StackShape, InterruptStack
<1>16. WaitersOnValues'
  <2>1. \A p \in Blocked' : p \in Blocked /\ p_semAdd'[p] = p_semAdd[p]
    BY <1>1, <1>5, <1>8 DEF Blocked, TypeOK
  <2> QED
    BY <1>8, <2>1, ValuesUntouched
<1>17. IoResultDelivered'
  <2>1. Ready' = Ready \cup {w}
    BY <1>1, <1>5, <1>8, AppendQueue DEF Ready, TypeOK
  <2> QED
    BY <1>4, <1>8, <2>1 DEF IoInv, IoResultDelivered, w
<1> QED
  BY <1>14, <1>15, <1>16, <1>17 DEF IoInv

(* Nobody waits for the mutex, so the device is free again.                *)
LEMMA IoRelease == ASSUME IInv, IoInv, releaseDevice PROVE IoInv'
<1>1. TypeOK /\ cpu = "kernel" /\ StackShape
  BY DEF releaseDevice, Running, IInv, IoInv
<1>2. PICK d \in Dev : Releasing(d)
  BY <1>1, RunningStack DEF releaseDevice
<1>3. Head(kcall).dev = d /\ Tail(kcall) = <<>>
  <2>1. Head(kcall) = CallReleaseDevice(d) /\ Tail(kcall) = <<>>
    BY <1>2, ShortTails DEF Releasing
  <2> QED
    BY <2>1 DEF CallReleaseDevice
<1>4. IoStack(kcall, d, g_current_process)
  BY <1>2 DEF Releasing, IoStack
<1>5. DeviceUsed(d) /\ s_procq[mut(d)] = <<>> /\ semaphore[sync(d)] = 0
  BY <1>2 DEF IoInv, DevicesInPhase, DeviceFree
<1>6. device[d] = "idle" /\ semaphore[mut(d)] = 0 /\ s_procq[sync(d)] = <<>>
  BY <1>2, <1>5 DEF DeviceUsed
<1> DEFINE s == mut(d)
<1>7. /\ waiting_process' = [waiting_process EXCEPT ![d] = NULL]
      /\ semaphore' = [semaphore EXCEPT ![s] = semaphore[s] + 1]
      /\ kcall' = <<>>
      /\ UNCHANGED <<s_procq, p_semAdd, g_ready_queue, device, p_s, g_current_process>>
  BY <1>3, <1>5 DEF releaseDevice, passTheBaton, leaveDevice, Return
<1>8. s \in SemAddr
  BY SemAddrTypes
<1>9. /\ \A e \in Dev : sync(e) \in SemAddr \ {s}
      /\ \A e \in Dev \ {d} : mut(e) \in SemAddr \ {s}
      /\ \A x \in UserSem \cup {g_pseudo_clock} : x \in SemAddr \ {s}
  BY AddressesDistinct, SemAddrTypes
<1> HIDE DEF s
<1>10. /\ semaphore'[s] = 1 /\ \A x \in SemAddr \ {s} : semaphore'[x] = semaphore[x]
       /\ waiting_process'[d] = NULL
       /\ \A e \in Dev \ {d} : waiting_process'[e] = waiting_process[e]
  BY <1>1, <1>6, <1>7, <1>8 DEF TypeOK, s
<1>11. ~ Asked(d)' /\ ~ Claimed(d)' /\ ~ Commanded(d)' /\ ~ Signalling(d)' /\ ~ Releasing(d)'
  BY <1>7, OtherStacks DEF IoStack, Asked, Claimed, Commanded, Signalling, Releasing
<1>12. DeviceFree(d)' /\ s_procq'[mut(d)] = <<>> /\ semaphore'[sync(d)] = 0
  BY <1>5, <1>6, <1>7, <1>9, <1>10, <1>11 DEF DeviceFree, s
<1>13. DevicesInPhase'
  BY <1>4, <1>7, <1>9, <1>10, <1>12, OtherDevices DEF IoInv
<1>14. StackShape' /\ TerminationSparesIo'
  BY <1>7, EmptyQueue DEF StackShape, TerminationSparesIo
<1>15. WaitersOnValues'
  BY <1>7, <1>9, <1>10, ValuesUntouched DEF Blocked
<1>16. IoResultDelivered'
  BY <1>7 DEF IoInv, IoResultDelivered, Ready
<1> QED
  BY <1>13, <1>14, <1>15, <1>16 DEF IoInv

(* A device may end its operation at any time.                             *)
LEMMA IoDeviceDone ==
  ASSUME IInv, IoInv, NEW d \in Dev, DeviceDone(d)
  PROVE  IoInv'
<1>1. /\ device[d] = "busy" /\ device'[d] \in {"ok", "err"}
      /\ \A e \in Dev \ {d} : device'[e] = device[e]
      /\ UNCHANGED <<waiting_process, s_procq, p_semAdd, g_ready_queue, p_s, semaphore, cpu, kcall,
                     g_current_process, g_old_state, p_child>>
  BY DEF DeviceDone, IInv, TypeOK, queueVars, procVars
<1>2. StackShape' /\ TerminationSparesIo' /\ WaitersOnValues' /\ IoResultDelivered'
  BY <1>1 DEF IoInv, StackShape, TerminationSparesIo, Subtree, WaitersOnValues, IoResultDelivered,
     Blocked, Ready, SyscallStack, InterruptStack, Asked, Claimed, Commanded, Signalling, Releasing
<1>3. DevicesInPhase'
  <2> SUFFICES ASSUME NEW e \in Dev
               PROVE  /\ s_procq'[mut(e)] = <<>> /\ semaphore'[sync(e)] = 0
                      /\ (DeviceFree(e) \/ DeviceUsed(e))'
    BY DEF DevicesInPhase
  <2>1. /\ Asked(e)' <=> Asked(e)
        /\ Claimed(e)' <=> Claimed(e)
        /\ Commanded(e)' <=> Commanded(e)
        /\ Signalling(e)' <=> Signalling(e)
        /\ Releasing(e)' <=> Releasing(e)
    BY <1>1 DEF Asked, Claimed, Commanded, Signalling, Releasing
  <2>2. CASE DeviceFree(e)
    <3>1. e # d
      BY <1>1, <2>2 DEF DeviceFree
    <3> QED
      BY <1>1, <2>1, <2>2, <3>1 DEF DeviceFree, IoInv, DevicesInPhase
  <2>3. CASE DeviceUsed(e)
    <3>1. device'[e] = "idle" <=> device[e] = "idle"
      BY <1>1
    <3> QED
      BY <1>1, <2>1, <2>3, <3>1 DEF DeviceUsed, IoInv, DevicesInPhase
  <2> QED
    BY <2>2, <2>3 DEF IoInv, DevicesInPhase
<1> QED
  BY <1>2, <1>3 DEF IoInv

(* A machine that does nothing keeps everything.                           *)
LEMMA IoStutter == ASSUME IoInv, UNCHANGED vars PROVE IoInv'
  BY DEF vars, procVars, queueVars, ioVars, IoInv, StackShape, DevicesInPhase, DeviceFree, DeviceUsed,
     TerminationSparesIo, Subtree, WaitersOnValues, IoResultDelivered, Blocked, Ready,
     SyscallStack, InterruptStack, Asked, Claimed, Commanded, Signalling, Releasing

(* P is called by a process, for itself or in DOIO.                        *)
LEMMA IoPasseren == ASSUME IInv, IoInv, sysPasseren PROVE IoInv'
<1>1. TypeOK /\ StackShape /\ Running("sysPasseren")
  BY DEF IInv, IoInv, sysPasseren
<1>2. SyscallStack /\ ~ \E d \in Dev : Claimed(d)
  BY <1>1, RunningStack
<1>3. ASSUME NEW s \in UserSem \cup {g_pseudo_clock}, kcall = <<CallPasseren(s)>>,
             g_old_state.call = IF s = g_pseudo_clock THEN "CLOCKWAIT" ELSE "PASSEREN"
      PROVE  IoInv'
  <2>1. Head(kcall).sem = s
    BY <1>3, ShortTails DEF CallPasseren
  <2>2. semaphore[s] \in {0, 1}
    BY DEF IoInv, WaitersOnValues
  <2>3. /\ \/ semaphore[s] = 1 /\ s_procq[s] # <<>> /\ Wake(s)
           \/ semaphore[s] = 1 /\ s_procq[s] = <<>> /\ Count(s, -1)
           \/ semaphore[s] # 1 /\ Block(s)
        /\ UNCHANGED <<ioVars, g_old_state>>
    BY <2>1 DEF sysPasseren
  <2>4. semaphore[s] = 1 => semaphore[s] + (-1) \in {0, 1}
    OBVIOUS
  <2> QED
    BY <1>2, <1>3, <2>2, <2>3, <2>4, IoValueStep
<1>4. \A s : kcall # <<CallVerhogen(s)>>
  BY <1>1, Tops DEF Running
<1> QED
  BY <1>2, <1>3, <1>4, AddressesDistinct, IoClaim, IoWait DEF SyscallStack

(* V is called by a process, or by the interrupt of a device.              *)
LEMMA IoVerhogen == ASSUME IInv, IoInv, sysVerhogen PROVE IoInv'
<1>1. TypeOK /\ StackShape /\ Running("sysVerhogen")
  BY DEF IInv, IoInv, sysVerhogen
<1>2. ASSUME SyscallStack, NEW s \in UserSem, kcall = <<CallVerhogen(s)>>
      PROVE  IoInv'
  <2>1. Head(kcall).sem = s
    BY <1>2, ShortTails DEF CallVerhogen
  <2>2. semaphore[s] \in {0, 1} /\ s # g_pseudo_clock
    BY AddressesDistinct DEF IoInv, WaitersOnValues
  <2>3. /\ \/ semaphore[s] = 0 /\ s_procq[s] # <<>> /\ Wake(s)
           \/ semaphore[s] = 0 /\ s_procq[s] = <<>> /\ Count(s, 1)
           \/ semaphore[s] # 0 /\ Block(s)
        /\ UNCHANGED <<ioVars, g_old_state>>
    BY <2>1 DEF sysVerhogen
  <2>4. semaphore[s] = 0 => semaphore[s] + 1 \in {0, 1}
    OBVIOUS
  <2>5. g_old_state.call = "VERHOGEN"
    <3>1. \A d : ~ Asked(d) /\ ~ Claimed(d) /\ ~ Commanded(d)
      BY <1>1, Tops DEF Running
    <3>2. \A x : kcall # <<CallPasseren(x)>>
      BY <1>1, Tops DEF Running
    <3> QED
      BY <1>2, <3>1, <3>2 DEF SyscallStack
  <2> QED
    BY <1>2, <2>2, <2>3, <2>4, <2>5, IoValueStep
<1> QED
  BY <1>1, <1>2, RunningStack, IoSignal

-----------------------------------------------------------------------------
(* The invariant of the devices *)

(* The first process has not asked for anything.                           *)
LEMMA InitIoInv == Init => IoInv
<1> SUFFICES ASSUME Init PROVE IoInv
  OBVIOUS
<1>1. PICK root \in Pcb :
        /\ p_semAdd = [p \in Pcb |-> NULL]
        /\ p_s = [p \in Pcb |-> NoContext]
        /\ s_procq = [s \in SemAddr |-> <<>>]
        /\ \E user \in [Sem -> {0, 1}] :
             semaphore = [s \in SemAddr |->
                            CASE s[1] = "user" -> user[s[2]]
                              [] s[1] = "sync" -> 0
                              [] OTHER         -> 1]
        /\ waiting_process = [d \in Dev |-> NULL]
        /\ g_ready_queue = <<root>>
        /\ cpu = "kernel" /\ kcall = <<CallScheduler>>
        /\ device = [d \in Dev |-> "idle"]
  BY DEF Init
<1>2. NoIoStack
  BY <1>1, OtherStacks DEF NoIoStack
<1>3. /\ \A s \in UserSem \cup {g_pseudo_clock} : semaphore[s] \in {0, 1}
      /\ \A d \in Dev : semaphore[mut(d)] = 1 /\ semaphore[sync(d)] = 0
  <2>1. PICK user \in [Sem -> {0, 1}] :
          semaphore = [s \in SemAddr |->
                         CASE s[1] = "user" -> user[s[2]]
                           [] s[1] = "sync" -> 0
                           [] OTHER         -> 1]
    BY <1>1
  <2>2. \A s \in UserSem : s \in SemAddr /\ s[1] = "user" /\ s[2] \in Sem
    BY AddressesDistinct DEF UserSem
  <2>3. \A s \in UserSem : semaphore[s] \in {0, 1}
    BY <2>1, <2>2
  <2>4. semaphore[g_pseudo_clock] = 1
    BY <2>1, AddressesDistinct
  <2>5. \A d \in Dev : semaphore[mut(d)] = 1 /\ semaphore[sync(d)] = 0
    BY <2>1, AddressesDistinct, SemAddrTypes
  <2> QED
    BY <2>3, <2>4, <2>5
<1>4. DevicesInPhase
  <2> SUFFICES ASSUME NEW d \in Dev
               PROVE  s_procq[mut(d)] = <<>> /\ semaphore[sync(d)] = 0 /\ DeviceFree(d)
    BY DEF DevicesInPhase
  <2>1. ~ Claimed(d) /\ ~ Commanded(d) /\ ~ Signalling(d) /\ ~ Releasing(d)
    BY <1>2, NoIoPhases
  <2> QED
    BY <1>1, <1>3, <2>1, SemAddrTypes DEF DeviceFree
<1>5. StackShape
  BY <1>1, SchedulerStack DEF StackShape
<1>6. TerminationSparesIo
  <2>1. ToSet(kcall) = {CallScheduler} /\ CallScheduler.fn \notin TermFn
    BY <1>1, FrameTypes, SingleFrame DEF CallScheduler, TermFn
  <2> QED
    BY <2>1 DEF TerminationSparesIo
<1>7. Blocked = {}
  BY <1>1 DEF Blocked
<1>8. IoResultDelivered
  <2>1. Ready = {root}
    BY <1>1, SingleFrame DEF Ready
  <2> QED
    BY <1>1, <2>1 DEF IoResultDelivered, NoContext
<1> QED
  BY <1>3, <1>4, <1>5, <1>6, <1>7, <1>8 DEF IoInv, WaitersOnValues

(* Every step keeps the invariant.                                         *)
LEMMA NextIoInv == ASSUME IoClient, IInv, IoInv, [Next]_vars PROVE IoInv'
<1>1. CASE KernelStep
  BY <1>1, IoPasseren, IoVerhogen, IoBegin, IoRelease, IoTerminateProcess, IoTerminateChildren,
     IoDispatch, IoIdle, IoIdleLoop, IoReturn DEF KernelStep
<1>2. CASE UserStep
  <2>1. CASE SYSCALL_TERMPROCESS
    BY <2>1, IoTerminateCall DEF SYSCALL_TERMPROCESS, Ended, IInv, TypeOK
  <2>2. CASE passUpOrDie
    BY <2>2, UserIsLive, IoTerminateCall DEF passUpOrDie
  <2> QED
    BY <1>2, <2>1, <2>2, IoCreate, IoSemaphoreCall, IoAsk, IoReturn DEF UserStep
<1>3. CASE InterruptStep
  BY <1>3, IoTimerInUser, IoTimerInIdle, IoSysTimer, IoInterrupt
     DEF InterruptStep, handleLocalTimer
<1>4. CASE \E d \in Dev : DeviceDone(d)
  BY <1>4, IoDeviceDone
<1>5. CASE Stop \/ UNCHANGED vars
  BY <1>5, IoStutter DEF Stop
<1> QED
  BY <1>1, <1>2, <1>3, <1>4, <1>5 DEF Next

(* With clients that do not share devices and do not terminate processes   *)
(* in I/O, call stack, devices and semaphores fit together at every step.  *)
THEOREM IoInvariance == ASSUME IoClient PROVE Spec => []IoInv
<1>1. IInv /\ IoInv /\ [Next]_vars => IoInv'
  BY NextIoInv
<1> QED
  BY <1>1, InitIoInv, Invariance, PTL DEF Spec

(* Outside of the kernel a device is idle with its mutex free, or it works *)
(* for the process that is blocked on its sync semaphore.                  *)
THEOREM DevicesConsistent == ASSUME IoClient PROVE Spec => []IoStateConsistent
<1>1. ASSUME IInv, IoInv PROVE IoStateConsistent
  <2> SUFFICES ASSUME kcall = <<>>, NEW d \in Dev
               PROVE  \/ /\ device[d] = "idle" /\ waiting_process[d] = NULL
                         /\ semaphore[mut(d)] = 1
                      \/ /\ device[d] # "idle" /\ waiting_process[d] # NULL
                         /\ p_semAdd[waiting_process[d]] = sync(d)
                         /\ semaphore[mut(d)] = 0
    BY DEF IoStateConsistent
  <2>1. ~ Claimed(d) /\ ~ Commanded(d) /\ ~ Signalling(d) /\ ~ Releasing(d)
    BY NoIoPhases, OtherStacks DEF NoIoStack
  <2>2. CASE DeviceFree(d)
    BY <2>1, <2>2 DEF DeviceFree
  <2>3. CASE DeviceUsed(d)
    BY <1>1, <2>1, <2>3, IoWaiter DEF DeviceUsed, IoInv
  <2> QED
    BY <1>1, <2>2, <2>3 DEF IoInv, DevicesInPhase
<1> QED
  BY <1>1, Invariance, IoInvariance, PTL

(* Every blocked process waits because of a call it made itself, and the   *)
(* value of the semaphore says why.                                        *)
THEOREM WaitsAreExplained == ASSUME IoClient PROVE Spec => []WaitersExplained
<1>1. ASSUME IInv, IoInv PROVE WaitersExplained
  <2> SUFFICES ASSUME NEW p \in Blocked
               PROVE  LET s == p_semAdd[p] IN
                        \/ p_s[p].call = "PASSEREN" /\ s[1] = "user" /\ semaphore[s] = 0
                        \/ p_s[p].call = "VERHOGEN" /\ s[1] = "user" /\ semaphore[s] = 1
                        \/ p_s[p].call = "CLOCKWAIT" /\ s = g_pseudo_clock /\ semaphore[s] = 0
                        \/ /\ p_s[p].call = "DOIO" /\ s[1] = "sync" /\ semaphore[s] = 0
                           /\ waiting_process[s[2]] = p
    BY DEF WaitersExplained
  <2>1. p \in Pcb /\ p_semAdd[p] \in SemAddr
    BY <1>1 DEF Blocked, IInv, TypeOK
  <2>2. CASE p_semAdd[p] \in UserSem \cup {g_pseudo_clock}
    BY <1>1, <2>2, AddressesDistinct DEF IoInv, WaitersOnValues
  <2>3. CASE \E d \in Dev : p_semAdd[p] \in {mut(d), sync(d)}
    BY <1>1, <2>1, <2>3, BlockedOnDevice, AddressesDistinct DEF IoInv
  <2> QED
    BY <2>1, <2>2, <2>3, AddressesDistinct
<1> QED
  BY <1>1, Invariance, IoInvariance, PTL

(* A process that comes back from DOIO carries the status of its device.   *)
THEOREM ResultsDelivered == ASSUME IoClient PROVE Spec => []IoResultDelivered
<1>1. IoInv => IoResultDelivered
  BY DEF IoInv
<1> QED
  BY <1>1, IoInvariance, PTL
-----------------------------------------------------------------------------
(* The mutexes of the devices, whatever the clients do *)

(* The stacks on which no device is held.                                  *)
LEMMA HoldsNone ==
  ASSUME NEW k \in Seq(Frame),
         \/ k = <<>>
         \/ TerminationStack(k)
         \/ \E s : k \in {<<CallPasseren(s)>>, <<CallVerhogen(s)>>}
         \/ \E e, p : k = <<CallPasseren(mut(e)), CallBeginIO(e, p)>>
  PROVE  \A d : ~ HoldsDevice(k, d)
<1> SUFFICES ASSUME NEW d, HoldsDevice(k, d) PROVE FALSE
  OBVIOUS
<1>1. /\ k # <<>>
      /\ \/ Head(k).fn \in {"beginIO", "releaseDevice"}
         \/ k = <<CallVerhogen(sync(d)), CallReleaseDevice(d)>>
  BY DEF HoldsDevice, CallBeginIO, CallReleaseDevice
<1>2. Head(k).fn \in {"beginIO", "releaseDevice", "sysVerhogen"}
  BY <1>1 DEF CallVerhogen
<1>3. CASE TerminationStack(k)
  BY <1>2, <1>3, TerminationTop DEF TermFn
<1>4. CASE \E s : k \in {<<CallPasseren(s)>>, <<CallVerhogen(s)>>}
  BY SMTT(30), <1>1, <1>4 DEF CallPasseren, CallVerhogen
<1>5. CASE \E e, p : k = <<CallPasseren(mut(e)), CallBeginIO(e, p)>>
  BY <1>2, <1>5 DEF CallPasseren
<1> QED
  BY <1>1, <1>3, <1>4, <1>5

(* Only one device is held at a time.                                      *)
LEMMA HoldsOne ==
  ASSUME NEW k, NEW d, NEW e, HoldsDevice(k, d), HoldsDevice(k, e)
  PROVE  d = e
  BY DEF HoldsDevice, CallVerhogen, CallBeginIO, CallReleaseDevice

(* A step that leaves the mutex of a device alone.                         *)
LEMMA MutexKept ==
  ASSUME NEW d \in Dev, MutexSound(d),
         semaphore'[mut(d)] = semaphore[mut(d)],
         s_procq[mut(d)] = <<>> => s_procq'[mut(d)] = <<>>,
         device'[d] = device[d],
         HoldsDevice(kcall', d) => HoldsDevice(kcall, d)
  PROVE  MutexSound(d)'
  BY DEF MutexSound

(* The stacks that are no part of an I/O operation under way.              *)
OutsideIo(k) ==
  \/ k = <<>>
  \/ TerminationStack(k)
  \/ \E s \in UserSem \cup {g_pseudo_clock} : k \in {<<CallPasseren(s)>>, <<CallVerhogen(s)>>}
  \/ \E d \in Dev, p \in Pcb : k = <<CallPasseren(mut(d)), CallBeginIO(d, p)>>

(* A step that changes neither values nor queues nor devices.              *)
LEMMA MutexQuiet ==
  ASSUME MutexInv, TypeOK', UNCHANGED <<semaphore, s_procq, device>>,
         kcall' = kcall \/ OutsideIo(kcall')
  PROVE  MutexInv'
<1>1. AnyStack'
  <2>1. CASE kcall' = kcall
    BY <2>1 DEF MutexInv, AnyStack, Commanded, Signalling, Releasing
  <2>2. CASE OutsideIo(kcall')
    BY <2>2 DEF OutsideIo, AnyStack
  <2> QED
    BY <2>1, <2>2
<1>2. ASSUME NEW d \in Dev PROVE HoldsDevice(kcall', d) => HoldsDevice(kcall, d)
  <2>1. CASE OutsideIo(kcall')
    BY <2>1, HoldsNone DEF OutsideIo, TypeOK
  <2> QED
    BY <2>1
<1> QED
  BY <1>1, <1>2, MutexKept DEF MutexInv

(* What the stack says when a function runs.                               *)
LEMMA RunningAny ==
  ASSUME TypeOK, AnyStack, NEW fn, Running(fn)
  PROVE  /\ fn = "sysPasseren" =>
              \/ \E s \in UserSem \cup {g_pseudo_clock} : kcall = <<CallPasseren(s)>>
              \/ \E d \in Dev, p \in Pcb : kcall = <<CallPasseren(mut(d)), CallBeginIO(d, p)>>
              \/ \E d \in Dev : Commanded(d)
         /\ fn = "sysVerhogen" =>
              \/ \E s \in UserSem \cup {g_pseudo_clock} : kcall = <<CallVerhogen(s)>>
              \/ \E d \in Dev : Signalling(d)
         /\ fn = "beginIO" => \E d \in Dev, p \in Pcb : kcall = <<CallBeginIO(d, p)>>
         /\ fn = "releaseDevice" => \E d \in Dev : Releasing(d)
         /\ fn \in TermFn => TerminationStack(kcall)
<1>1. Head(kcall).fn = fn /\ kcall \in Seq(Frame) /\ kcall # <<>>
  BY RunningFrame DEF Running
<1>2. CASE TerminationStack(kcall)
  BY <1>1, <1>2, TerminationTop DEF TermFn
<1>3. CASE \E s \in UserSem \cup {g_pseudo_clock} :
             kcall \in {<<CallPasseren(s)>>, <<CallVerhogen(s)>>}
  BY <1>1, <1>3, Tops DEF TermFn
<1>4. CASE \E d \in Dev, p \in Pcb : kcall = <<CallPasseren(mut(d)), CallBeginIO(d, p)>>
  <2>1. Head(kcall).fn = "sysPasseren"
    BY <1>4, ShortTails DEF CallPasseren
  <2> QED
    BY <1>1, <1>4, <2>1 DEF TermFn
<1>5. CASE \E d \in Dev, p \in Pcb : kcall = <<CallBeginIO(d, p)>>
  <2>1. Head(kcall).fn = "beginIO"
    BY <1>5, ShortTails DEF CallBeginIO
  <2> QED
    BY <1>1, <1>5, <2>1 DEF TermFn
<1>6. CASE \E d \in Dev : Commanded(d) \/ Signalling(d) \/ Releasing(d)
  BY <1>1, <1>6, Tops DEF TermFn
<1> QED
  BY <1>1, <1>2, <1>3, <1>4, <1>5, <1>6 DEF AnyStack

(* The scheduler, the timer of a process, its calls and its creation.      *)
LEMMA MutexOutside ==
  ASSUME IInv, MutexInv, IInv',
         \/ dispatch \/ idle \/ recheck \/ WAIT \/ wakeUp \/ LDST
         \/ sysCreateProcess \/ SYSCALL_PASSEREN \/ SYSCALL_VERHOGEN
         \/ sysDoIO \/ sysDoIOPanic \/ sysClockWait \/ handleLocalTimer
         \/ UNCHANGED vars
  PROVE  MutexInv'
<1>1. UNCHANGED <<semaphore, s_procq, device>>
  BY DEF dispatch, idle, recheck, WAIT, wakeUp, LDST, sysCreateProcess, SYSCALL_PASSEREN,
     SYSCALL_VERHOGEN, sysDoIO, sysDoIOPanic, sysClockWait, Syscall, handleLocalTimer, timerInUser,
     timerInIdle, schedUnchanged, queueVars, ioVars, vars
<1>2. kcall' = kcall \/ OutsideIo(kcall')
  <2>1. CASE sysDoIO
    <3>1. cpu = "user" /\ \E d \in Dev : kcall' = <<CallPasseren(mut(d)), CallBeginIO(d, g_current_process)>>
      BY <2>1 DEF sysDoIO, Syscall
    <3> QED
      BY <3>1, UserIsLive DEF OutsideIo
  <2>2. CASE SYSCALL_PASSEREN \/ SYSCALL_VERHOGEN \/ sysClockWait
    BY <2>2 DEF SYSCALL_PASSEREN, SYSCALL_VERHOGEN, sysClockWait, Syscall, OutsideIo, UserSem
  <2>3. CASE recheck \/ wakeUp \/ handleLocalTimer
    BY <2>3, SchedulerStack DEF recheck, wakeUp, handleLocalTimer, timerInUser, timerInIdle,
       timerWithoutCurrent, timerRevives, OutsideIo
  <2>4. CASE dispatch \/ idle
    BY <2>4 DEF dispatch, idle, OutsideIo
  <2>5. CASE WAIT \/ LDST \/ sysCreateProcess \/ sysDoIOPanic \/ UNCHANGED vars
    BY <2>5 DEF WAIT, LDST, sysCreateProcess, sysDoIOPanic, vars
  <2> QED
    BY <2>1, <2>2, <2>3, <2>4, <2>5
<1>3. TypeOK'
  BY DEF IInv
<1> QED
  BY <1>1, <1>2, <1>3, MutexQuiet

(* A termination is asked for.                                             *)
LEMMA MutexTerminateCall ==
  ASSUME MutexInv, IInv', NEW p \in Pcb, sysTerminateProcess(p)
  PROVE  MutexInv'
<1>1. UNCHANGED <<semaphore, s_procq, device>>
      /\ kcall' = <<CallTerminateProcess(p), CallScheduler>>
  BY DEF sysTerminateProcess, Syscall, queueVars, ioVars
<1>2. TerminationStack(kcall')
  BY <1>1, ShortTails DEF TerminationStack, CallTerminateProcess, CallScheduler, TermFn
<1>3. TypeOK'
  BY DEF IInv
<1> QED
  BY <1>1, <1>2, <1>3, MutexQuiet DEF OutsideIo

(* A termination goes on; only the sync semaphore of a device may change,  *)
(* and queues only get shorter.                                            *)
LEMMA MutexTermination ==
  ASSUME IInv, MutexInv, IInv', terminateProcess \/ terminateChildren
  PROVE  MutexInv'
<1>1. TypeOK /\ Queues /\ TypeOK' /\ AnyStack
  BY InvariantQueues DEF IInv, MutexInv
<1>2. PICK fn \in TermFn : Running(fn)
  BY DEF terminateProcess, terminateChildren, TermFn
<1>3. /\ kcall \in Seq(Frame) /\ TerminationStack(kcall) /\ Head(kcall).fn \in TermFn
      /\ Head(kcall) \in Frame /\ Head(kcall).pcb \in Pcb
  BY <1>1, <1>2, RunningAny, RunningFrame, FrameArguments DEF TermFn
<1>4. TerminationStack(kcall')
  <2>1. CASE terminateProcess
    <3>1. CallTerminateChildren(Head(kcall).pcb) \in Frame
          /\ CallTerminateChildren(Head(kcall).pcb).fn \in TermFn
      BY <1>3, FrameTypes DEF CallTerminateChildren, TermFn
    <3> QED
      BY <1>3, <2>1, <3>1, TerminationGoesOn DEF terminateProcess
  <2>2. CASE terminateChildren /\ terminateNext(Head(kcall).pcb)
    <3>1. PICK c \in p_child[Head(kcall).pcb] : kcall' = <<CallTerminateProcess(c)>> \o kcall
      BY <2>2 DEF terminateNext
    <3>2. c \in Pcb
      BY <1>1, <1>3 DEF TypeOK
    <3>3. CallTerminateProcess(c) \in Frame /\ CallTerminateProcess(c).fn \in TermFn
      BY <3>2, FrameTypes DEF CallTerminateProcess, TermFn
    <3> QED
      BY <1>3, <3>1, <3>3, TerminationGoesOn
  <2>3. CASE terminateChildren /\ terminated(Head(kcall).pcb)
    BY <1>3, <2>3, TerminationTop DEF terminated, Return
  <2> QED
    BY <2>1, <2>2, <2>3 DEF terminateChildren
<1>5. ASSUME NEW d \in Dev
      PROVE  /\ semaphore'[mut(d)] = semaphore[mut(d)] /\ device'[d] = device[d]
             /\ s_procq[mut(d)] = <<>> => s_procq'[mut(d)] = <<>>
  <2>1. CASE terminateChildren
    BY <2>1 DEF terminateChildren, ioVars
  <2>2. CASE terminateProcess
    <3> DEFINE p == Head(kcall).pcb
               s == p_semAdd[p]
    <3>1. /\ UNCHANGED device
          /\ \/ UNCHANGED <<s_procq, p_semAdd>>
             \/ s # NULL /\ outBlocked(p)
          /\ semaphore' = semaphore \/ semaphore' = [semaphore EXCEPT ![sync(resolveSemAddr(s))] = -1]
      BY <2>2 DEF terminateProcess, ioVars
    <3>2. p \in Pcb /\ mut(d) \in SemAddr
      BY <1>3, SemAddrTypes
    <3> HIDE DEF p
    <3>3. semaphore'[mut(d)] = semaphore[mut(d)]
      BY <1>1, <3>1, <3>2, AddressesDistinct DEF TypeOK
    <3>4. CASE s # NULL /\ outBlocked(p)
      <4>1. s \in SemAddr /\ p \in ToSet(s_procq[s])
        BY <1>1, <3>2, <3>4 DEF TypeOK, Queues, SemAddMatchesQueue
      <4>2. s_procq[s] # <<>>
        BY <4>1, EmptyQueue
      <4> QED
        BY <1>1, <3>1, <3>2, <3>3, <3>4, <4>2 DEF outBlocked, TypeOK
    <3> QED
      BY <3>1, <3>3, <3>4
  <2> QED
    BY <2>1, <2>2
<1>6. \A d \in Dev : MutexSound(d)'
  BY <1>1, <1>4, <1>5, HoldsNone, MutexKept DEF TypeOK, MutexInv
<1> QED
  BY <1>4, <1>6 DEF MutexInv, AnyStack

(* The tick is not about devices.                                          *)
LEMMA MutexTick == ASSUME IInv, MutexInv, handleSysTimer PROVE MutexInv'
<1>1. UNCHANGED <<kcall, device>>
      /\ \A d \in Dev : s_procq'[mut(d)] = s_procq[mut(d)] /\ semaphore'[mut(d)] = semaphore[mut(d)]
  BY AddressesDistinct, SemAddrTypes DEF handleSysTimer, IInv, TypeOK, ioVars
<1>2. AnyStack'
  BY <1>1 DEF MutexInv, AnyStack, Commanded, Signalling, Releasing
<1> QED
  BY <1>1, <1>2, MutexKept DEF MutexInv
(* P and V of a semaphore that is no mutex, and a P that blocks.           *)
LEMMA MutexSemaphore ==
  ASSUME IInv, MutexInv, IInv', NEW s \in SemAddr, NEW delta \in Int,
         UNCHANGED device,
         \/ Wake(s) \/ Count(s, delta) \/ Block(s),
         (\A d \in Dev : s # mut(d)) \/ (semaphore[s] # 1 /\ Block(s)),
         kcall' = Tail(kcall) \/ kcall' = <<>> \/ kcall' = <<CallScheduler>>,
         \/ Tail(kcall) = <<>>
         \/ \E d \in Dev : Signalling(d)
         \/ Block(s)
  PROVE  MutexInv'
<1>1. TypeOK /\ TypeOK'
  BY DEF IInv
<1>2. ASSUME NEW d \in Dev
      PROVE  /\ semaphore'[mut(d)] = semaphore[mut(d)]
             /\ s # mut(d) => s_procq'[mut(d)] = s_procq[mut(d)]
  BY <1>1, SemAddrTypes DEF Wake, removeBlocked, Count, Block, insertBlocked, queueVars, TypeOK
<1>3. \/ kcall' = <<>>
      \/ kcall' = <<CallScheduler>>
      \/ \E d \in Dev : Signalling(d) /\ kcall' = <<CallReleaseDevice(d)>>
  BY ShortTails DEF Block, Signalling
<1>4. AnyStack' /\ \A d \in Dev : HoldsDevice(kcall', d) => HoldsDevice(kcall, d)
  <2>1. CASE kcall' = <<>> \/ kcall' = <<CallScheduler>>
    BY <1>1, <2>1, SchedulerStack, HoldsNone DEF AnyStack, TypeOK
  <2>2. CASE \E d \in Dev : Signalling(d) /\ kcall' = <<CallReleaseDevice(d)>>
    <3>1. PICK d \in Dev : Signalling(d) /\ kcall' = <<CallReleaseDevice(d)>>
      BY <2>2
    <3>2. HoldsDevice(kcall, d) /\ HoldsDevice(kcall', d)
      BY <3>1 DEF HoldsDevice, Signalling
    <3>3. \A e \in Dev : HoldsDevice(kcall', e) => e = d
      BY <3>2, HoldsOne
    <3>4. AnyStack'
      BY <3>1 DEF AnyStack, Releasing
    <3> QED
      BY <3>2, <3>3, <3>4
  <2> QED
    BY <1>3, <2>1, <2>2
<1>5. ASSUME NEW d \in Dev PROVE MutexSound(d)'
  <2>1. CASE s # mut(d)
    BY <1>2, <1>4, <2>1, MutexKept DEF MutexInv
  <2>2. CASE s = mut(d)
    <3>1. semaphore[mut(d)] # 1 /\ Block(s)
      BY <2>2
    <3> QED
      BY <1>2, <1>4, <3>1 DEF MutexSound, MutexInv
  <2> QED
    BY <2>1, <2>2
<1> QED
  BY <1>4, <1>5 DEF MutexInv

(* Who gets the mutex of a device finds the device idle.                   *)
LEMMA MutexTaken ==
  ASSUME IInv, MutexInv, IInv', NEW d \in Dev, NEW p \in Pcb,
         kcall = <<CallPasseren(mut(d)), CallBeginIO(d, p)>>,
         semaphore[mut(d)] = 1, Count(mut(d), -1), UNCHANGED device
  PROVE  MutexInv'
<1>1. kcall' = <<CallBeginIO(d, p)>>
  BY ShortTails DEF Count, Return
<1>2. HoldsDevice(kcall', d)
  BY <1>1 DEF HoldsDevice
<1>3. /\ semaphore'[mut(d)] = 0
      /\ \A e \in Dev \ {d} : semaphore'[mut(e)] = semaphore[mut(e)]
      /\ UNCHANGED s_procq
  BY AddressesDistinct, SemAddrTypes DEF Count, queueVars, IInv, TypeOK
<1>4. MutexSound(d)'
  BY <1>3 DEF MutexSound, MutexInv
<1>5. ASSUME NEW e \in Dev \ {d} PROVE MutexSound(e)'
  BY <1>2, <1>3, HoldsOne, MutexKept DEF MutexInv
<1> QED
  BY <1>1, <1>4, <1>5 DEF MutexInv, AnyStack

(* P, of programs and in the kernel.                                       *)
LEMMA MutexPasseren == ASSUME IInv, MutexInv, IInv', sysPasseren PROVE MutexInv'
<1>1. /\ \/ \E s \in UserSem \cup {g_pseudo_clock} : kcall = <<CallPasseren(s)>>
         \/ \E d \in Dev, p \in Pcb : kcall = <<CallPasseren(mut(d)), CallBeginIO(d, p)>>
         \/ \E d \in Dev : Commanded(d)
      /\ UNCHANGED device
  BY RunningAny DEF sysPasseren, IInv, MutexInv, ioVars
<1> DEFINE s == Head(kcall).sem
<1>2. \/ semaphore[s] = 1 /\ s_procq[s] # <<>> /\ Wake(s)
      \/ semaphore[s] = 1 /\ s_procq[s] = <<>> /\ Count(s, -1)
      \/ semaphore[s] # 1 /\ Block(s)
  BY DEF sysPasseren
<1>3. kcall' = Tail(kcall) \/ kcall' = <<>> \/ kcall' = <<CallScheduler>>
  BY <1>2 DEF Wake, Count, Block, Return
<1>4. CASE \E t \in UserSem \cup {g_pseudo_clock} : kcall = <<CallPasseren(t)>>
  <2>1. s \in SemAddr /\ Tail(kcall) = <<>> /\ \A d \in Dev : s # mut(d)
    BY <1>4, ShortTails, AddressesDistinct DEF CallPasseren
  <2> HIDE DEF s
  <2> QED
    BY <1>1, <1>2, <1>3, <2>1, MutexSemaphore
<1>5. CASE \E d \in Dev : Commanded(d)
  <2>1. s \in SemAddr /\ Tail(kcall) = <<>> /\ \A d \in Dev : s # mut(d)
    BY <1>5, ShortTails, AddressesDistinct, SemAddrTypes DEF Commanded, CallPasseren
  <2> HIDE DEF s
  <2> QED
    BY <1>1, <1>2, <1>3, <2>1, MutexSemaphore
<1>6. CASE \E d \in Dev, p \in Pcb : kcall = <<CallPasseren(mut(d)), CallBeginIO(d, p)>>
  <2>1. PICK d \in Dev, p \in Pcb : kcall = <<CallPasseren(mut(d)), CallBeginIO(d, p)>>
    BY <1>6
  <2>2. s = mut(d) /\ s \in SemAddr
    BY <2>1, ShortTails, SemAddrTypes DEF CallPasseren
  <2> HIDE DEF s
  <2>3. semaphore[s] = 1 => s_procq[s] = <<>>
    BY <2>2 DEF MutexInv, MutexSound
  <2>4. CASE semaphore[s] = 1 /\ Count(s, -1)
    BY <1>1, <2>1, <2>2, <2>4, MutexTaken
  <2>5. CASE semaphore[s] # 1 /\ Block(s)
    <3>1. kcall' = <<>> \/ kcall' = <<CallScheduler>>
      BY <2>5 DEF Block
    <3> QED
      BY <1>1, <2>2, <2>5, <3>1, MutexSemaphore, 0 \in Int
  <2> QED
    BY <1>2, <2>3, <2>4, <2>5
<1> QED
  BY <1>1, <1>4, <1>5, <1>6

(* V, of programs and in the interrupt handler.                            *)
LEMMA MutexVerhogen == ASSUME IInv, MutexInv, IInv', sysVerhogen PROVE MutexInv'
<1>1. /\ \/ \E s \in UserSem \cup {g_pseudo_clock} : kcall = <<CallVerhogen(s)>>
         \/ \E d \in Dev : Signalling(d)
      /\ UNCHANGED device
  BY RunningAny DEF sysVerhogen, IInv, MutexInv, ioVars
<1> DEFINE s == Head(kcall).sem
<1>2. Wake(s) \/ Count(s, 1) \/ Block(s)
  BY DEF sysVerhogen
<1>3. kcall' = Tail(kcall) \/ kcall' = <<>> \/ kcall' = <<CallScheduler>>
  BY <1>2 DEF Wake, Count, Block, Return
<1>4. s \in SemAddr /\ \A d \in Dev : s # mut(d)
  <2>1. CASE \E t \in UserSem \cup {g_pseudo_clock} : kcall = <<CallVerhogen(t)>>
    BY <2>1, ShortTails, AddressesDistinct DEF CallVerhogen
  <2>2. CASE \E d \in Dev : Signalling(d)
    BY <2>2, ShortTails, AddressesDistinct, SemAddrTypes DEF Signalling, CallVerhogen
  <2> QED
    BY <1>1, <2>1, <2>2
<1>5. Tail(kcall) = <<>> \/ \E d \in Dev : Signalling(d)
  BY <1>1, ShortTails
<1> HIDE DEF s
<1> QED
  BY <1>1, <1>2, <1>3, <1>4, <1>5, MutexSemaphore
(* The command, which goes to an idle device.                              *)
LEMMA MutexBegin == ASSUME IInv, MutexInv, beginIO PROVE MutexInv'
<1>1. PICK d \in Dev, p \in Pcb : kcall = <<CallBeginIO(d, p)>>
  BY RunningAny DEF beginIO, IInv, MutexInv
<1>2. Head(kcall).dev = d /\ Tail(kcall) = <<>>
  BY <1>1, ShortTails DEF CallBeginIO
<1>3. /\ kcall' = <<CallPasseren(sync(d))>>
      /\ UNCHANGED <<s_procq, semaphore>>
      /\ \A e \in Dev \ {d} : device'[e] = device[e]
  BY <1>2, ShortTails DEF beginIO, queueVars, IInv, TypeOK
<1>4. HoldsDevice(kcall, d)
  BY <1>1 DEF HoldsDevice
<1>5. CallPasseren(sync(d)) \in Frame
  BY FrameTypes, SemAddrTypes
<1>6. \A e : ~ HoldsDevice(kcall', e)
  <2>1. kcall' \in Seq(Frame)
    BY <1>3, <1>5
  <2> QED
    BY <1>3, <2>1, HoldsNone
<1>7. MutexSound(d)'
  BY <1>3, <1>4, <1>6 DEF MutexInv, MutexSound
<1>8. ASSUME NEW e \in Dev \ {d} PROVE MutexSound(e)'
  BY <1>3, <1>6, MutexKept DEF MutexInv
<1>9. AnyStack'
  BY <1>3 DEF AnyStack, Commanded
<1> QED
  BY <1>7, <1>8, <1>9 DEF MutexInv

(* The device goes to the next process, or its mutex is released.          *)
LEMMA MutexRelease == ASSUME IInv, MutexInv, releaseDevice PROVE MutexInv'
<1>1. PICK d \in Dev : Releasing(d)
  BY RunningAny DEF releaseDevice, IInv, MutexInv
<1>2. Head(kcall).dev = d /\ Tail(kcall) = <<>> /\ HoldsDevice(kcall, d)
  BY <1>1, ShortTails DEF Releasing, CallReleaseDevice, HoldsDevice
<1>3. /\ semaphore[mut(d)] = 0 /\ device[d] = "idle"
      /\ UNCHANGED device
      /\ passTheBaton(d) \/ leaveDevice(d)
  BY <1>2 DEF MutexInv, MutexSound, releaseDevice
<1>4. CASE passTheBaton(d)
  <2> DEFINE h == Head(s_procq[mut(d)])
  <2>1. h \in Pcb
    BY <1>4, SemAddrTypes DEF passTheBaton, IInv, TypeOK
  <2>2. /\ kcall' = <<CallBeginIO(d, h)>>
        /\ UNCHANGED semaphore
        /\ \A e \in Dev \ {d} : s_procq'[mut(e)] = s_procq[mut(e)]
    <3>1. kcall' = <<CallBeginIO(d, h)>> \o <<>> /\ UNCHANGED semaphore
      BY <1>2, <1>4 DEF passTheBaton
    <3>2. s_procq' = [s_procq EXCEPT ![mut(d)] = Tail(s_procq[mut(d)])]
      BY <1>4 DEF passTheBaton, removeBlocked
    <3>3. \A e \in Dev \ {d} : s_procq'[mut(e)] = s_procq[mut(e)]
      BY <3>2, AddressesDistinct, SemAddrTypes DEF IInv, TypeOK
    <3> QED
      BY <3>1, <3>3, ShortTails
  <2> HIDE DEF h
  <2>3. HoldsDevice(kcall', d) /\ AnyStack'
    BY <2>1, <2>2 DEF HoldsDevice, AnyStack
  <2>4. MutexSound(d)'
    BY <1>3, <2>2 DEF MutexSound
  <2>5. ASSUME NEW e \in Dev \ {d} PROVE MutexSound(e)'
    BY <1>3, <2>2, <2>3, HoldsOne, MutexKept DEF MutexInv
  <2> QED
    BY <2>3, <2>4, <2>5 DEF MutexInv
<1>5. CASE leaveDevice(d)
  <2>1. /\ kcall' = <<>>
        /\ UNCHANGED s_procq
        /\ s_procq[mut(d)] = <<>>
        /\ semaphore'[mut(d)] = 1
        /\ \A e \in Dev \ {d} : semaphore'[mut(e)] = semaphore[mut(e)]
    BY <1>2, <1>3, <1>5, AddressesDistinct, SemAddrTypes DEF leaveDevice, Return, IInv, TypeOK
  <2>2. <<>> \in Seq(Frame)
    OBVIOUS
  <2>3. \A e : ~ HoldsDevice(kcall', e)
    BY <2>1, <2>2, HoldsNone
  <2>4. MutexSound(d)'
    BY <1>3, <2>1, <2>3 DEF MutexSound
  <2>5. ASSUME NEW e \in Dev \ {d} PROVE MutexSound(e)'
    BY <1>3, <2>1, <2>3, MutexKept DEF MutexInv
  <2> QED
    BY <2>1, <2>4, <2>5 DEF MutexInv, AnyStack
<1> QED
  BY <1>3, <1>4, <1>5

(* The interrupt: a device that has ended an operation has been held.      *)
LEMMA MutexInterrupt ==
  ASSUME IInv, MutexInv, NEW d \in Dev, handleDeviceInt(d)
  PROVE  MutexInv'
<1>1. /\ device[d] \in {"ok", "err"} /\ device'[d] = "idle"
      /\ \A e \in Dev \ {d} : device'[e] = device[e]
      /\ UNCHANGED <<s_procq, semaphore>>
      /\ kcall' = <<>> \/ kcall' = <<CallVerhogen(sync(d)), CallReleaseDevice(d)>>
  BY DEF handleDeviceInt, endIO, queueVars, IInv, TypeOK
<1>2. semaphore[mut(d)] = 0
  BY <1>1 DEF MutexInv, MutexSound
<1>3. MutexSound(d)'
  BY <1>1, <1>2 DEF MutexSound
<1>4. AnyStack' /\ \A e \in Dev \ {d} : ~ HoldsDevice(kcall', e)
  <2>1. CASE kcall' = <<>>
    <3>1. <<>> \in Seq(Frame)
      OBVIOUS
    <3> QED
      BY <2>1, <3>1, HoldsNone DEF AnyStack
  <2>2. CASE kcall' = <<CallVerhogen(sync(d)), CallReleaseDevice(d)>>
    <3>1. HoldsDevice(kcall', d)
      BY <2>2 DEF HoldsDevice
    <3>2. AnyStack'
      BY <2>2 DEF AnyStack, Signalling
    <3> QED
      BY <3>1, <3>2, HoldsOne
  <2> QED
    BY <1>1, <2>1, <2>2
<1>5. ASSUME NEW e \in Dev \ {d} PROVE MutexSound(e)'
  BY <1>1, <1>4, MutexKept DEF MutexInv
<1> QED
  BY <1>3, <1>4, <1>5 DEF MutexInv

(* The end of an operation: a busy device has been held.                   *)
LEMMA MutexDeviceDone ==
  ASSUME IInv, MutexInv, NEW d \in Dev, DeviceDone(d)
  PROVE  MutexInv'
<1>1. /\ device[d] = "busy"
      /\ \A e \in Dev \ {d} : device'[e] = device[e]
      /\ UNCHANGED <<s_procq, semaphore, kcall>>
  BY DEF DeviceDone, queueVars, IInv, TypeOK
<1>2. AnyStack'
  BY <1>1 DEF MutexInv, AnyStack, Commanded, Signalling, Releasing
<1>3. MutexSound(d)'
  BY <1>1 DEF MutexInv, MutexSound
<1>4. ASSUME NEW e \in Dev \ {d} PROVE MutexSound(e)'
  BY <1>1, MutexKept DEF MutexInv
<1> QED
  BY <1>2, <1>3, <1>4 DEF MutexInv

(* The mutexes are free at first, and so are the devices.                  *)
LEMMA InitMutexInv == Init => MutexInv
<1> SUFFICES ASSUME Init PROVE MutexInv
  OBVIOUS
<1>1. IInv
  BY InitIInv
<1>2. /\ kcall = <<CallScheduler>>
      /\ s_procq = [s \in SemAddr |-> <<>>]
      /\ device = [d \in Dev |-> "idle"]
  BY DEF Init
<1>3. \A d \in Dev : semaphore[mut(d)] = 1
  <2>1. PICK user \in [Sem -> {0, 1}] :
          semaphore = [s \in SemAddr |->
                         CASE s[1] = "user" -> user[s[2]]
                           [] s[1] = "sync" -> 0
                           [] OTHER         -> 1]
    BY DEF Init
  <2> QED
    BY <2>1, AddressesDistinct, SemAddrTypes
<1>4. TerminationStack(kcall) /\ kcall \in Seq(Frame)
  BY <1>1, <1>2, SchedulerStack DEF IInv, TypeOK
<1>5. \A d \in Dev : ~ HoldsDevice(kcall, d)
  BY <1>4, HoldsNone
<1> QED
  BY <1>2, <1>3, <1>4, <1>5, SemAddrTypes DEF MutexInv, MutexSound, AnyStack

(* Every step keeps the mutexes sound.                                     *)
LEMMA NextMutexInv == ASSUME IInv, MutexInv, [Next]_vars, IInv' PROVE MutexInv'
<1>1. CASE KernelStep
  BY <1>1, MutexPasseren, MutexVerhogen, MutexBegin, MutexRelease, MutexTermination, MutexOutside
  DEF KernelStep
<1>2. CASE UserStep
  <2>1. CASE SYSCALL_TERMPROCESS
    BY <2>1, MutexTerminateCall DEF SYSCALL_TERMPROCESS, Ended, IInv, TypeOK
  <2>2. CASE passUpOrDie
    BY <2>2, UserIsLive, MutexTerminateCall DEF passUpOrDie
  <2> QED
    BY <1>2, <2>1, <2>2, MutexOutside DEF UserStep
<1>3. CASE InterruptStep
  BY <1>3, MutexOutside, MutexTick, MutexInterrupt DEF InterruptStep
<1>4. CASE \E d \in Dev : DeviceDone(d)
  BY <1>4, MutexDeviceDone
<1>5. CASE Stop \/ UNCHANGED vars
  BY <1>5, MutexOutside DEF Stop
<1> QED
  BY <1>1, <1>2, <1>3, <1>4, <1>5 DEF Next

(* Whatever the clients do, the mutex of a device is 0 or 1, and it is     *)
(* free only when the device is idle and nobody waits for it.              *)
THEOREM MutexInvariance == Spec => []MutexInv
<1>1. IInv /\ IInv' /\ MutexInv /\ [Next]_vars => MutexInv'
  BY NextMutexInv
<1> QED
  BY <1>1, InitMutexInv, Invariance, PTL DEF Spec

(* Whatever the clients do, beginIO writes its command to a device that is *)
(* idle: the mutex goes from the interrupt to the next process in line     *)
(* without ever being free, and a termination in between does not free it. *)
THEOREM CommandsAreSafe == Spec => []CommandOnlyToIdleDevice
<1>1. ASSUME IInv, MutexInv PROVE CommandOnlyToIdleDevice
  <2> SUFFICES ASSUME Running("beginIO") PROVE device[Head(kcall).dev] = "idle"
    BY DEF CommandOnlyToIdleDevice
  <2>1. PICK d \in Dev, p \in Pcb : kcall = <<CallBeginIO(d, p)>>
    BY <1>1, RunningAny DEF IInv, MutexInv
  <2>2. Head(kcall).dev = d /\ HoldsDevice(kcall, d)
    BY <2>1, ShortTails DEF CallBeginIO, HoldsDevice
  <2> QED
    BY <1>1, <2>2 DEF MutexInv, MutexSound
<1> QED
  BY <1>1, Invariance, MutexInvariance, PTL


-----------------------------------------------------------------------------
(* Steps that terminate nothing *)

Quiet(k) == \A f \in ToSet(k) : f.fn \notin TermFn

(* The stacks on which no termination is in progress.                      *)
LEMMA QuietStacks ==
  ASSUME NEW k,
         \/ k = <<>>
         \/ k = <<CallScheduler>>
         \/ \E s : k = <<CallPasseren(s)>> \/ k = <<CallVerhogen(s)>>
         \/ \E d, c : IoStack(k, d, c)
  PROVE  Quiet(k)
<1>1. ASSUME NEW f, NEW g, k = <<f>> \/ k = <<f, g>>, f.fn \notin TermFn, g.fn \notin TermFn
      PROVE  Quiet(k)
  <2>1. ToSet(k) \subseteq {f, g}
    BY <1>1 DEF ToSet
  <2> QED
    BY <1>1, <2>1 DEF Quiet
<1>2. /\ \A s : CallPasseren(s).fn \notin TermFn /\ CallVerhogen(s).fn \notin TermFn
      /\ \A d : CallReleaseDevice(d).fn \notin TermFn
      /\ \A d, c : CallBeginIO(d, c).fn \notin TermFn
      /\ CallScheduler.fn \notin TermFn
  BY DEF CallPasseren, CallVerhogen, CallReleaseDevice, CallBeginIO, CallScheduler, TermFn
<1>3. CASE k = <<>>
  BY <1>3, EmptyQueue DEF Quiet
<1>4. CASE k = <<CallScheduler>>
  BY <1>1, <1>2, <1>4
<1>5. CASE \E s : k = <<CallPasseren(s)>> \/ k = <<CallVerhogen(s)>>
  BY <1>1, <1>2, <1>5
<1>6. ASSUME NEW d, NEW c, IoStack(k, d, c)
      PROVE  Quiet(k)
  BY <1>1, <1>2, <1>6 DEF IoStack
<1> QED
  BY <1>3, <1>4, <1>5, <1>6

(* While another function runs no termination is in progress.              *)
LEMMA QuietKernel ==
  ASSUME IInv, IoInv, NEW fn, Running(fn), fn \notin TermFn
  PROVE  Quiet(kcall)
<1>1. TypeOK /\ StackShape /\ Head(kcall).fn = fn /\ kcall # <<>> /\ kcall \in Seq(Frame)
  BY RunningFrame DEF IInv, IoInv
<1>2. CASE TerminationStack(kcall)
  BY <1>1, <1>2, TerminationTop, QuietStacks
<1>3. CASE SyscallStack
  BY <1>3, QuietStacks DEF SyscallStack, Asked, Claimed, Commanded, IoStack
<1>4. CASE InterruptStack
  BY <1>4, QuietStacks DEF InterruptStack, Signalling, Releasing, IoStack
<1> QED
  BY <1>1, <1>2, <1>3, <1>4 DEF StackShape

(* A quiet stack stays quiet when its top is replaced or removed.          *)
LEMMA QuietGoesOn ==
  ASSUME NEW k \in Seq(Frame), k # <<>>, Quiet(k), NEW f \in Frame, f.fn \notin TermFn
  PROVE  Quiet(Tail(k)) /\ Quiet(<<f>> \o Tail(k))
<1>1. Tail(k) \in Seq(Frame) /\ ToSet(Tail(k)) \subseteq ToSet(k)
  BY PopStack
<1>2. ToSet(<<f>> \o Tail(k)) = {f} \cup ToSet(Tail(k))
  BY <1>1, PushStack
<1> QED
  BY <1>1, <1>2 DEF Quiet

(* Only a system call blocks: an interrupt never does.                     *)
LEMMA OnlySyscallsBlock ==
  ASSUME IInv, IoInv, sysPasseren \/ sysVerhogen, Block(Head(kcall).sem)
  PROVE  SyscallStack
<1> DEFINE s == Head(kcall).sem
<1>1. PICK fn \in {"sysPasseren", "sysVerhogen"} : Running(fn)
  BY DEF sysPasseren, sysVerhogen
<1>2. /\ TypeOK /\ StackShape /\ Head(kcall).fn = fn
  BY <1>1, RunningFrame DEF IInv, IoInv
<1>3. ASSUME NEW d \in Dev, Signalling(d), fn = "sysVerhogen"
      PROVE  FALSE
  <2>1. s = sync(d) /\ semaphore[sync(d)] = 0 /\ sync(d) \in SemAddr
    BY <1>3, ShortTails, SemAddrTypes DEF Signalling, CallVerhogen, IoInv, DevicesInPhase
  <2>2. s_procq[sync(d)] # <<>>
    <3>1. waiting_process[d] # NULL /\ ~ Commanded(d) /\ ~ Releasing(d)
      <4>1. IoStack(kcall, d, NULL)
        BY <1>3 DEF Signalling, IoStack
      <4>2. ~ Commanded(d) /\ ~ Releasing(d)
        BY <1>3, <4>1, IoStacksDistinct DEF Signalling, Commanded, Releasing
      <4> QED
        BY <1>3, <4>2 DEF IoInv, DevicesInPhase, DeviceFree, DeviceUsed
    <3> QED
      BY <3>1, IoWaiter, ShortTails DEF IoInv
  <2>3. \/ semaphore[s] = 0 /\ s_procq[s] # <<>> /\ Wake(s)
        \/ semaphore[s] = 0 /\ s_procq[s] = <<>> /\ Count(s, 1)
        \/ semaphore[s] # 0 /\ Block(s)
    <3>1. "sysVerhogen" # "sysPasseren" /\ ~ sysPasseren
      BY <1>1, <1>2, <1>3 DEF sysPasseren, Running
    <3> QED
      BY <3>1 DEF sysVerhogen
  <2>4. Wake(s)
    BY <2>1, <2>2, <2>3
  <2>5. kcall' = <<CallReleaseDevice(d)>>
    BY <1>3, <2>4, ShortTails DEF Wake, Return, Signalling
  <2>6. kcall' = <<>> \/ kcall' = <<CallScheduler>>
    BY DEF Block
  <2> QED
    BY <2>5, <2>6 DEF CallReleaseDevice, CallScheduler
<1> QED
  BY <1>1, <1>2, <1>3, RunningStack

(* P and V of a process whose PCB is in use free or take no PCB.           *)
LEMMA SemaphoresSpareTree ==
  ASSUME IInv, IoInv, sysPasseren \/ sysVerhogen
  PROVE  Quiet(kcall) /\ Quiet(kcall') /\ UNCHANGED pcbFree_h
<1> DEFINE s == Head(kcall).sem
<1>1. PICK fn \in {"sysPasseren", "sysVerhogen"} : Running(fn)
  BY DEF sysPasseren, sysVerhogen
<1>2. /\ TypeOK /\ kcall \in Seq(Frame) /\ kcall # <<>> /\ cpu = "kernel"
      /\ Head(kcall) \in Frame /\ Head(kcall).fn = fn
  BY <1>1, RunningFrame DEF IInv
<1>3. Quiet(kcall) /\ s \in SemAddr /\ fn \notin TermFn
  BY <1>1, <1>2, QuietKernel, FrameArguments DEF TermFn
<1>4. Quiet(Tail(kcall))
  BY <1>2, <1>3, QuietGoesOn
<1>5. CASE Wake(s)
  BY <1>3, <1>4, <1>5 DEF Wake, Return
<1>6. CASE \E delta \in Int : Count(s, delta)
  BY <1>3, <1>4, <1>6 DEF Count, Return
<1>7. CASE Block(s)
  <2>1. g_current_process \in Live
    BY <1>2, <1>7, OnlySyscallsBlock, SyscallCurrent
  <2>2. kcall' = <<CallScheduler>> /\ UNCHANGED pcbFree_h
    BY <1>3, <1>7, <2>1, BlockCurrent
  <2> QED
    BY <1>3, <2>2, QuietStacks
<1>8. Wake(s) \/ (\E delta \in Int : Count(s, delta)) \/ Block(s)
  <2>1. Count(s, -1) \/ Count(s, 1) => \E delta \in Int : Count(s, delta)
    OBVIOUS
  <2> QED
    BY <2>1 DEF sysPasseren, sysVerhogen
<1> QED
  BY <1>5, <1>6, <1>7, <1>8

(* The steps that leave the process tree and the count alone.              *)
Bystander ==
  \/ sysPasseren \/ sysVerhogen \/ beginIO \/ releaseDevice
  \/ dispatch \/ idle \/ recheck \/ WAIT \/ wakeUp \/ LDST
  \/ SYSCALL_PASSEREN \/ SYSCALL_VERHOGEN \/ sysDoIO \/ sysDoIOPanic \/ sysClockWait
  \/ timerInUser \/ handleSysTimer \/ \E d \in Dev : handleDeviceInt(d)

LEMMA TreeUntouched ==
  ASSUME IInv, IoInv, Bystander
  PROVE  /\ Quiet(kcall) /\ Quiet(kcall')
         /\ UNCHANGED <<pcbFree_h, p_parent, p_child, g_process_count>>
<1>1. CASE sysPasseren \/ sysVerhogen
  BY <1>1, SemaphoresSpareTree DEF sysPasseren, sysVerhogen
<1>2. CASE beginIO \/ releaseDevice
  <2>1. PICK fn \in {"beginIO", "releaseDevice"} : Running(fn)
    BY <1>2 DEF beginIO, releaseDevice
  <2>2. /\ TypeOK /\ kcall \in Seq(Frame) /\ kcall # <<>> /\ Head(kcall) \in Frame /\ Head(kcall).fn = fn
    BY <2>1, RunningFrame DEF IInv
  <2>3. Head(kcall).dev \in Dev /\ Quiet(kcall)
    BY <2>1, <2>2, FrameArguments, QuietKernel DEF TermFn
  <2>4. UNCHANGED <<pcbFree_h, p_parent, p_child, g_process_count>>
    BY <1>2 DEF beginIO, releaseDevice, procVars
  <2>5. CASE beginIO
    <3> DEFINE f == CallPasseren(sync(Head(kcall).dev))
    <3>1. f \in Frame /\ f.fn \notin TermFn /\ kcall' = <<f>> \o Tail(kcall)
      BY <2>3, <2>5, FrameTypes, SemAddrTypes DEF beginIO, CallPasseren, TermFn
    <3> QED
      BY <2>2, <2>3, <2>4, <3>1, QuietGoesOn
  <2>6. CASE releaseDevice
    <3> DEFINE d == Head(kcall).dev
               f == CallBeginIO(d, Head(s_procq[mut(d)]))
    <3>1. s_procq[mut(d)] # <<>> => f \in Frame /\ f.fn \notin TermFn
      <4>1. s_procq[mut(d)] \in Seq(Pcb)
        BY <2>2, <2>3, SemAddrTypes DEF TypeOK
      <4> QED
        BY <2>3, <4>1, TailQueue, FrameTypes DEF CallBeginIO, TermFn
    <3>2. Quiet(Tail(kcall))
      BY <2>2, <2>3, FrameTypes, QuietGoesOn DEF CallScheduler, TermFn
    <3>3. CASE passTheBaton(d)
      BY <2>2, <2>3, <2>4, <3>1, <3>3, QuietGoesOn DEF passTheBaton
    <3>4. CASE leaveDevice(d)
      BY <2>3, <2>4, <3>2, <3>4 DEF leaveDevice, Return
    <3> QED
      BY <2>6, <3>3, <3>4 DEF releaseDevice
  <2> QED
    BY <1>2, <2>5, <2>6
<1>3. CASE dispatch \/ idle
  <2>1. Quiet(kcall)
    BY <1>3, QuietKernel DEF dispatch, idle, TermFn
  <2> QED
    BY <1>3, <2>1, QuietStacks DEF dispatch, idle, schedUnchanged, procVars
<1>4. CASE recheck \/ WAIT \/ wakeUp \/ LDST
  <2>1. kcall = <<>>
    BY <1>4, NoKernelNoStack DEF recheck, WAIT, wakeUp, LDST, IoInv
  <2> QED
    BY <1>4, <2>1, QuietStacks DEF recheck, WAIT, wakeUp, LDST, schedUnchanged, procVars
<1>5. CASE SYSCALL_PASSEREN \/ SYSCALL_VERHOGEN \/ sysDoIO \/ sysDoIOPanic \/ sysClockWait
  <2>1. kcall = <<>> /\ UNCHANGED <<pcbFree_h, p_parent, p_child, g_process_count>>
    BY <1>5, NoKernelNoStack DEF SYSCALL_PASSEREN, SYSCALL_VERHOGEN, sysDoIO, sysDoIOPanic,
       sysClockWait, Syscall, procVars, IoInv
  <2>2. \/ kcall' = kcall
        \/ \E s : kcall' = <<CallPasseren(s)>> \/ kcall' = <<CallVerhogen(s)>>
        \/ \E d, c : IoStack(kcall', d, c)
    BY <1>5 DEF SYSCALL_PASSEREN, SYSCALL_VERHOGEN, sysDoIO, sysDoIOPanic, sysClockWait, Syscall, IoStack
  <2> QED
    BY <2>1, <2>2, QuietStacks
<1>6. CASE timerInUser \/ handleSysTimer \/ \E d \in Dev : handleDeviceInt(d)
  <2>1. kcall = <<>> /\ UNCHANGED <<pcbFree_h, p_parent, p_child, g_process_count>>
    BY <1>6, NoKernelNoStack, ContextTypes DEF timerInUser, handleSysTimer,
       handleDeviceInt, schedUnchanged, procVars, IoInv
  <2>2. \/ kcall' = kcall \/ kcall' = <<>> \/ kcall' = <<CallScheduler>>
        \/ \E d, c : IoStack(kcall', d, c)
    BY <1>6 DEF timerInUser, handleSysTimer, handleDeviceInt, endIO, IoStack
  <2> QED
    BY <2>1, <2>2, QuietStacks
<1> QED
  BY <1>1, <1>2, <1>3, <1>4, <1>5, <1>6 DEF Bystander

(* They make no process of a PCB that resumes the idle loop, and none of a *)
(* process.                                                                *)
LEMMA ContextsKept ==
  ASSUME IInv, IoInv, Bystander
  PROVE  /\ \A p \in Pcb : p_s'[p].at = "user" <=> p_s[p].at = "user"
         /\ Processes' = Processes
<1>1. TypeOK
  BY DEF IInv
<1>2. \A p \in Pcb : p_s'[p].at = "user" <=> p_s[p].at = "user"
  <2>1. CASE sysPasseren \/ sysVerhogen
    <3> DEFINE s == Head(kcall).sem
    <3>1. CASE UNCHANGED p_s
      BY <3>1
    <3>2. CASE Block(s)
      <4>1. SyscallStack /\ cpu = "kernel"
        BY <2>1, <3>2, OnlySyscallsBlock DEF sysPasseren, sysVerhogen, Running
      <4>2. g_current_process \in Processes /\ g_current_process # NULL
        BY <4>1, SyscallCurrent
      <4>3. p_s' = [p_s EXCEPT ![g_current_process] = g_old_state] /\ g_old_state.at = "user"
        BY <3>2, <4>1, <4>2 DEF Block, SyscallStack
      <4> QED
        BY <1>1, <4>2, <4>3 DEF TypeOK, Processes
    <3> QED
      BY <2>1, <3>1, <3>2 DEF sysPasseren, sysVerhogen, Wake, Count
  <2>2. CASE dispatch
    <3>1. Head(g_ready_queue) \in Pcb
      BY <1>1, <2>2, TailQueue DEF dispatch, TypeOK
    <3> QED
      BY <1>1, <2>2, <3>1 DEF dispatch, TypeOK, NoContext
  <2>3. CASE timerInUser
    BY <1>1, <2>3, UserIsLive DEF timerInUser, TypeOK, NoContext, Processes
  <2>4. ASSUME NEW d \in Dev, handleDeviceInt(d), NEW p \in Pcb
        PROVE  p_s'[p].at = p_s[p].at
    <3>1. \/ UNCHANGED p_s
          \/ /\ waiting_process[d] # NULL
             /\ p_s' = [p_s EXCEPT ![waiting_process[d]].v0 = device[d]]
      BY <2>4 DEF handleDeviceInt, endIO, setReturnValue
    <3>2. p_s[p] \in Context /\ p_s \in [Pcb -> Context]
      BY <1>1 DEF TypeOK
    <3>3. p_s'[p] = p_s[p] \/ p_s'[p] = [p_s[p] EXCEPT !.v0 = device[d]]
      BY <3>1, <3>2
    <3> QED
      BY <3>2, <3>3 DEF Context
  <2>5. CASE \/ beginIO \/ releaseDevice \/ idle \/ recheck \/ WAIT \/ wakeUp \/ LDST
             \/ SYSCALL_PASSEREN \/ SYSCALL_VERHOGEN \/ sysDoIO \/ sysDoIOPanic \/ sysClockWait
             \/ handleSysTimer
    BY <2>5 DEF beginIO, releaseDevice, idle, recheck, WAIT, wakeUp, LDST, SYSCALL_PASSEREN,
       SYSCALL_VERHOGEN, sysDoIO, sysDoIOPanic, sysClockWait, Syscall, handleSysTimer
  <2> QED
    BY <2>1, <2>2, <2>3, <2>4, <2>5 DEF Bystander
<1> QED
  BY <1>2, TreeUntouched DEF Processes, Live

(* The local timer in the idle loop may take a PCB off the free list, but  *)
(* makes no process of it.                                                 *)
LEMMA TimerAddsNoProcess ==
  ASSUME IInv, IoInv, timerInIdle
  PROVE  /\ kcall = <<CallScheduler>> /\ Quiet(kcall) /\ Quiet(kcall')
         /\ UNCHANGED <<p_parent, p_child, g_process_count>>
         /\ pcbFree_h' \subseteq pcbFree_h /\ Processes' \subseteq Processes
         /\ g_current_process \notin Processes => Processes' = Processes
<1> DEFINE c == g_current_process
<1>1. TypeOK /\ kcall = <<CallScheduler>>
  BY RunningStack DEF timerInIdle, IInv, IoInv
<1>2. UNCHANGED <<p_parent, p_child, g_process_count>>
  BY DEF timerInIdle
<1>3. CASE timerWithoutCurrent
  BY <1>1, <1>2, <1>3, QuietStacks DEF timerWithoutCurrent, Processes, Live
<1>4. CASE timerRevives
  <2>1. /\ c \in Pcb /\ p_s' = [p_s EXCEPT ![c] = idleLoop]
        /\ pcbFree_h' = pcbFree_h \ {c} /\ kcall' = <<CallScheduler>>
    BY <1>1, <1>4 DEF timerRevives, TypeOK
  <2> HIDE DEF c
  <2>2. p_s'[c].at # "user" /\ \A p \in Pcb \ {c} : p_s'[p] = p_s[p]
    BY <1>1, <2>1 DEF TypeOK, idleLoop, NoContext
  <2>3. Processes' = Processes \ {c}
    BY <2>1, <2>2 DEF Processes, Live
  <2> QED
    BY <1>1, <1>2, <2>1, <2>3, QuietStacks DEF c
<1> QED
  BY <1>3, <1>4 DEF timerInIdle

-----------------------------------------------------------------------------
(* The tree *)

(* Nothing dies on a quiet stack.                                          *)
LEMMA QuietNobodyDies ==
  /\ Quiet(kcall) => Dying = {}
  /\ Quiet(kcall') => Dying' = {}
  BY DEF Quiet, Dying, TermFn

(* The top frame of a termination, and what replacing or popping it means  *)
(* for the processes that are being terminated.                            *)
LEMMA DyingStack ==
  ASSUME TypeOK, NEW fn \in TermFn, Running(fn)
  PROVE  /\ Head(kcall) \in Frame /\ Head(kcall).fn = fn /\ kcall # <<>> /\ kcall \in Seq(Frame)
         /\ Head(kcall).pcb \in Pcb /\ Head(kcall).pcb \in Dying
         /\ \A c \in Pcb : kcall' = <<CallTerminateProcess(c)>> \o kcall => Dying' = Dying \cup {c}
         /\ kcall' = <<CallTerminateChildren(Head(kcall).pcb)>> \o Tail(kcall) => Dying' = Dying
         /\ kcall' = Tail(kcall) => Dying' \subseteq Dying /\ Dying \subseteq Dying' \cup {Head(kcall).pcb}
<1> DEFINE p == Head(kcall).pcb
<1>1. /\ Head(kcall) \in Frame /\ Head(kcall).fn = fn /\ kcall # <<>> /\ kcall \in Seq(Frame)
      /\ Head(kcall) \in ToSet(kcall)
  BY RunningFrame
<1>2. p \in Pcb /\ p \in Dying
  BY <1>1, FrameArguments DEF TermFn, Dying
<1>3. Tail(kcall) \in Seq(Frame) /\ ToSet(kcall) = ToSet(Tail(kcall)) \cup {Head(kcall)}
  BY <1>1, TailQueue
<1>4. /\ \A q \in Pcb : CallTerminateProcess(q) \in Frame /\ CallTerminateChildren(q) \in Frame
      /\ \A q : CallTerminateProcess(q).fn = "terminateProcess" /\ CallTerminateProcess(q).pcb = q
      /\ \A q : CallTerminateChildren(q).fn = "terminateChildren" /\ CallTerminateChildren(q).pcb = q
  BY FrameTypes DEF CallTerminateProcess, CallTerminateChildren
<1>5. ASSUME NEW c \in Pcb, kcall' = <<CallTerminateProcess(c)>> \o kcall
      PROVE  Dying' = Dying \cup {c}
  <2>1. ToSet(kcall') = {CallTerminateProcess(c)} \cup ToSet(kcall)
    BY <1>1, <1>4, <1>5, PushStack
  <2> QED
    BY <1>4, <2>1 DEF Dying
<1>6. ASSUME kcall' = <<CallTerminateChildren(p)>> \o Tail(kcall)
      PROVE  Dying' = Dying
  <2>1. ToSet(kcall') = {CallTerminateChildren(p)} \cup ToSet(Tail(kcall))
    <3> DEFINE f == CallTerminateChildren(p)
    <3>1. f \in Frame /\ kcall' = <<f>> \o Tail(kcall)
      BY <1>2, <1>4, <1>6
    <3> HIDE DEF f
    <3>2. ToSet(kcall') = {f} \cup ToSet(Tail(kcall))
      BY <1>3, <3>1, PushStack
    <3> QED
      BY <3>2 DEF f
  <2>2. Head(kcall).fn \in {"terminateProcess", "terminateChildren"} /\ Head(kcall).pcb = p
    BY <1>1 DEF TermFn
  <2> QED
    BY <1>3, <1>4, <2>1, <2>2 DEF Dying
<1>7. ASSUME kcall' = Tail(kcall)
      PROVE  Dying' \subseteq Dying /\ Dying \subseteq Dying' \cup {p}
  BY <1>3, <1>7 DEF Dying
<1> QED
  BY <1>1, <1>2, <1>5, <1>6, <1>7

(* A step that does not touch the tree.                                    *)
LEMMA TreeKept ==
  ASSUME TreeInv, UNCHANGED <<p_parent, p_child>>, Dying' = Dying,
         pcbFree_h' \subseteq pcbFree_h, Processes' \subseteq Processes
  PROVE  TreeInv'
  BY DEF TreeInv, Live

(* A new process is a child of the one that created it.                    *)
LEMMA TreeCreate == ASSUME IInv, IoInv, TreeInv, sysCreateProcess PROVE TreeInv'
<1> DEFINE cur == g_current_process
<1>1. TypeOK /\ cur \in Pcb /\ cur \notin pcbFree_h /\ cur # NULL
  BY UserIsLive, NullAssumption DEF sysCreateProcess, IInv
<1>2. PICK p \in pcbFree_h :
        /\ pcbFree_h' = pcbFree_h \ {p}
        /\ p_parent' = [p_parent EXCEPT ![p] = cur]
        /\ p_child' = [[p_child EXCEPT ![p] = {}] EXCEPT ![cur] = @ \cup {p}]
        /\ p_s' = [p_s EXCEPT ![p] = NoContext]
  BY DEF sysCreateProcess, allocPcb, insertChild
<1>3. kcall = <<>> /\ kcall' = kcall
  BY NoKernelNoStack DEF sysCreateProcess, IoInv
<1>4. Dying = {} /\ Dying' = {}
  BY <1>3, QuietStacks, QuietNobodyDies
<1>5. p \in Pcb /\ p # cur /\ p_child[p] = {}
  BY <1>1, <1>2 DEF TypeOK, TreeInv
<1> HIDE DEF cur
<1>6. /\ p_parent'[p] = cur /\ \A q \in Pcb \ {p} : p_parent'[q] = p_parent[q]
      /\ p_child'[cur] = p_child[cur] \cup {p}
      /\ \A q \in Pcb \ {cur} : p_child'[q] = p_child[q]
  BY <1>1, <1>2, <1>5 DEF TypeOK
<1>7. /\ Live' = Live \cup {p} /\ p \notin Live
      /\ Processes' \subseteq Processes \cup {p}
  <2>1. \A q \in Pcb \ {p} : p_s'[q] = p_s[q]
    BY <1>1, <1>2 DEF TypeOK
  <2> QED
    BY <1>2, <1>5, <2>1 DEF Live, Processes
<1>8. \A q \in Pcb : \A c \in p_child'[q] : c \in Live' /\ c \notin Dying' /\ p_parent'[c] = q
  <2> SUFFICES ASSUME NEW q \in Pcb, NEW c \in p_child'[q]
               PROVE  c \in Live' /\ p_parent'[c] = q
    BY <1>4
  <2>1. CASE c \in p_child[q]
    <3>1. c \in Live /\ p_parent[c] = q /\ c \in Pcb
      BY <2>1 DEF TreeInv, Live
    <3> QED
      BY <1>6, <1>7, <3>1
  <2>2. CASE c \notin p_child[q]
    <3>1. q = cur /\ c = p
      BY <1>6, <2>2
    <3> QED
      BY <1>6, <1>7, <3>1
  <2> QED
    BY <2>1, <2>2
<1>9. \A q \in pcbFree_h' : p_child'[q] = {}
  BY <1>1, <1>2, <1>6 DEF TreeInv, TypeOK
<1>10. \A q \in Processes' \ Dying' : p_parent'[q] # NULL => q \in p_child'[p_parent'[q]]
  <2> SUFFICES ASSUME NEW q \in Processes', p_parent'[q] # NULL
               PROVE  q \in p_child'[p_parent'[q]]
    OBVIOUS
  <2>1. CASE q = p
    BY <1>6, <2>1
  <2>2. CASE q # p
    <3>1. q \in Processes /\ q \in Pcb /\ p_parent'[q] = p_parent[q]
      BY <1>6, <1>7, <2>2 DEF Processes, Live
    <3>2. p_parent[q] \in Pcb /\ q \in p_child[p_parent[q]]
      BY <1>1, <1>4, <3>1 DEF TreeInv, TypeOK
    <3> QED
      BY <1>6, <3>1, <3>2
  <2> QED
    BY <2>1, <2>2
<1> QED
  BY <1>8, <1>9, <1>10 DEF TreeInv

(* SYS2 takes the process out of the children of its parent.               *)
LEMMA TreeTerminateCall ==
  ASSUME IInv, IoInv, TreeInv, NEW p \in Pcb, sysTerminateProcess(p)
  PROVE  TreeInv' /\ Dying = {} /\ Dying' = {p} /\ kcall = <<>>
<1>1. /\ TypeOK /\ cpu # "kernel"
      /\ kcall' = <<CallTerminateProcess(p), CallScheduler>>
      /\ p_child' = outChild(p)
      /\ UNCHANGED <<pcbFree_h, p_parent, p_s>>
  BY DEF sysTerminateProcess, Syscall, IInv
<1>2. kcall = <<>> /\ Dying = {}
  BY <1>1, NoKernelNoStack, QuietStacks, QuietNobodyDies DEF IoInv
<1>3. Dying' = {p}
  <2>1. ToSet(kcall') = {CallTerminateProcess(p), CallScheduler}
    BY <1>1, FrameTypes, NewStackOfTwo
  <2> QED
    BY <2>1 DEF Dying, CallTerminateProcess, CallScheduler
<1>4. \A q \in Pcb : /\ p_child'[q] \subseteq p_child[q]
                     /\ p_child[q] \subseteq p_child'[q] \cup {p}
                     /\ q = p_parent[p] => p \notin p_child'[q]
  BY <1>1, NullAssumption DEF outChild, TypeOK
<1>5. \A q \in Pcb : \A c \in p_child'[q] : c \in Live' /\ c \notin Dying' /\ p_parent'[c] = q
  <2> SUFFICES ASSUME NEW q \in Pcb, NEW c \in p_child'[q]
               PROVE  c \in Live /\ c # p /\ p_parent[c] = q
    BY <1>1, <1>3 DEF Live
  <2>1. c \in Live /\ p_parent[c] = q
    BY <1>4 DEF TreeInv
  <2> QED
    BY <1>4, <2>1
<1>6. \A q \in pcbFree_h' : p_child'[q] = {}
  BY <1>1, <1>4 DEF TreeInv, TypeOK
<1>7. \A q \in Processes' \ Dying' : p_parent'[q] # NULL => q \in p_child'[p_parent'[q]]
  <2> SUFFICES ASSUME NEW q \in Processes, q # p, p_parent[q] # NULL
               PROVE  q \in p_child'[p_parent[q]]
    BY <1>1, <1>3 DEF Processes, Live
  <2>1. p_parent[q] \in Pcb /\ q \in p_child[p_parent[q]]
    BY <1>1, <1>2 DEF TreeInv, TypeOK, Processes, Live
  <2> QED
    BY <1>4, <2>1
<1> QED
  BY <1>2, <1>3, <1>5, <1>6, <1>7 DEF TreeInv

(* terminateProcess does not touch the tree.                               *)
LEMMA TreeTerminateProcess ==
  ASSUME IInv, TreeInv, terminateProcess
  PROVE  TreeInv' /\ Dying' = Dying
<1>1. /\ kcall' = <<CallTerminateChildren(Head(kcall).pcb)>> \o Tail(kcall)
      /\ UNCHANGED <<pcbFree_h, p_parent, p_child, p_s>>
  BY DEF terminateProcess, procVars
<1>2. Dying' = Dying
  BY <1>1, DyingStack DEF terminateProcess, IInv, TermFn
<1> QED
  BY <1>1, <1>2, TreeKept DEF Processes, Live

(* A child whose termination begins is taken from its parent.              *)
LEMMA TreeTerminateNext ==
  ASSUME IInv, TreeInv, Running("terminateChildren"), NEW p, p = Head(kcall).pcb,
         NEW c \in p_child[p], p_child' = [p_child EXCEPT ![p] = @ \ {c}],
         kcall' = <<CallTerminateProcess(c)>> \o kcall, UNCHANGED <<pcbFree_h, p_parent, p_s>>
  PROVE  TreeInv' /\ c \in Pcb /\ c \in Live /\ c \notin Dying /\ Dying' = Dying \cup {c}
<1>1. TypeOK /\ p \in Pcb
  BY DyingStack DEF IInv, TermFn
<1>2. c \in Pcb /\ c \in Live /\ c \notin Dying /\ p_parent[c] = p
  BY <1>1 DEF TreeInv, Live
<1>3. Dying' = Dying \cup {c}
  BY <1>1, <1>2, DyingStack DEF TermFn
<1>4. /\ p_child'[p] = p_child[p] \ {c}
      /\ \A q \in Pcb \ {p} : p_child'[q] = p_child[q]
  BY <1>1 DEF TypeOK
<1>5. \A q \in Pcb : \A d \in p_child'[q] : d \in Live' /\ d \notin Dying' /\ p_parent'[d] = q
  <2> SUFFICES ASSUME NEW q \in Pcb, NEW d \in p_child'[q]
               PROVE  d \in Live /\ d \notin Dying /\ d # c /\ p_parent[d] = q
    BY <1>3 DEF Live
  <2>1. d \in p_child[q]
    BY <1>4
  <2>2. d \in Live /\ d \notin Dying /\ p_parent[d] = q
    BY <2>1 DEF TreeInv
  <2> QED
    BY <1>2, <1>4, <2>2
<1>6. \A q \in pcbFree_h' : p_child'[q] = {}
  BY <1>1, <1>4 DEF TreeInv, TypeOK
<1>7. \A q \in Processes' \ Dying' : p_parent'[q] # NULL => q \in p_child'[p_parent'[q]]
  <2> SUFFICES ASSUME NEW q \in Processes, q \notin Dying, q # c, p_parent[q] # NULL
               PROVE  q \in p_child'[p_parent[q]]
    BY <1>3 DEF Processes, Live
  <2>1. p_parent[q] \in Pcb /\ q \in p_child[p_parent[q]]
    BY <1>1 DEF TreeInv, TypeOK, Processes, Live
  <2> QED
    BY <1>4, <2>1
<1> QED
  BY <1>2, <1>3, <1>5, <1>6, <1>7 DEF TreeInv

(* A process without children is freed; its parent does not have it any    *)
(* more.                                                                   *)
LEMMA TreeTerminated ==
  ASSUME IInv, TreeInv, Running("terminateChildren"), NEW p, p = Head(kcall).pcb,
         p_child[p] = {}, pcbFree_h' = pcbFree_h \cup {p},
         kcall' = Tail(kcall), UNCHANGED <<p_parent, p_child, p_s>>
  PROVE  TreeInv'
<1>1. TypeOK /\ p \in Pcb /\ p \in Dying
  BY DyingStack DEF IInv, TermFn
<1>2. Dying' \subseteq Dying /\ Dying \subseteq Dying' \cup {p}
  BY <1>1, DyingStack DEF TermFn
<1>3. Live' = Live \ {p} /\ Processes' = Processes \ {p}
  BY DEF Live, Processes
<1> QED
  BY <1>1, <1>2, <1>3 DEF TreeInv

(* Every step keeps parents and children consistent.                       *)
LEMMA NextTreeInv == ASSUME IInv, IoInv, TreeInv, [Next]_vars PROVE TreeInv'
<1>1. CASE Bystander
  BY <1>1, TreeUntouched, ContextsKept, QuietNobodyDies, TreeKept
<1>2. CASE sysCreateProcess
  BY <1>2, TreeCreate
<1>3. CASE SYSCALL_TERMPROCESS \/ passUpOrDie
  BY <1>3, TreeTerminateCall, UserIsLive DEF SYSCALL_TERMPROCESS, passUpOrDie, Ended, IInv, TypeOK
<1>4. CASE terminateProcess
  BY <1>4, TreeTerminateProcess
<1>5. CASE terminateChildren
  BY <1>5, TreeTerminateNext, TreeTerminated
     DEF terminateChildren, terminateNext, terminated, freePcb, Return
<1>6. CASE (\E d \in Dev : DeviceDone(d)) \/ Stop \/ UNCHANGED vars
  <2>1. UNCHANGED <<pcbFree_h, p_parent, p_child, p_s, kcall>>
    BY <1>6 DEF DeviceDone, Stop, vars, procVars
  <2> QED
    BY <2>1, TreeKept DEF Dying, Processes, Live
<1>7. CASE timerInIdle
  BY <1>7, TimerAddsNoProcess, QuietNobodyDies, TreeKept
<1> QED
  BY <1>1, <1>2, <1>3, <1>4, <1>5, <1>6, <1>7
     DEF Next, KernelStep, UserStep, InterruptStep, handleLocalTimer, Bystander

(* The first process has neither parent nor children.                      *)
LEMMA InitTreeInv == Init => TreeInv
  BY DEF Init, TreeInv, Processes, Live

(* With clients that do not share devices and do not terminate processes   *)
(* in I/O, the links of the process tree agree at every step.              *)
THEOREM TreeInvariance == ASSUME IoClient PROVE Spec => []TreeInv
<1>1. IInv /\ IoInv /\ TreeInv /\ [Next]_vars => TreeInv'
  BY NextTreeInv
<1> QED
  BY <1>1, InitTreeInv, Invariance, IoInvariance, PTL DEF Spec

(* Termination takes whole trees: when it is over no process has a parent  *)
(* that is gone.                                                           *)
THEOREM NoOrphansLeft == ASSUME IoClient PROVE Spec => []NoOrphans
<1>1. ASSUME TypeOK, TreeInv PROVE NoOrphans
  <2> SUFFICES ASSUME Dying = {}, NEW p \in Live
               PROVE  /\ p \in Processes /\ p_parent[p] # NULL
                           => p_parent[p] \in Live /\ p \in p_child[p_parent[p]]
                      /\ \A c \in p_child[p] : c \in Live /\ p_parent[c] = p
    BY DEF NoOrphans
  <2>1. p \in Pcb
    BY DEF Live
  <2>2. ASSUME p \in Processes, p_parent[p] # NULL
        PROVE  p_parent[p] \in Live /\ p \in p_child[p_parent[p]]
    <3>1. p_parent[p] \in Pcb /\ p \in p_child[p_parent[p]]
      BY <1>1, <2>1, <2>2 DEF TypeOK, TreeInv
    <3> QED
      BY <1>1, <3>1 DEF TreeInv, Live
  <2> QED
    BY <1>1, <2>1, <2>2 DEF TreeInv
<1> QED
  BY <1>1, TypeCorrect, TreeInvariance, PTL

-----------------------------------------------------------------------------
(* The current process *)

(* The names of the functions on the stack.                                *)
LEMMA FrameNames ==
  /\ \A s : CallPasseren(s).fn = "sysPasseren" /\ CallVerhogen(s).fn = "sysVerhogen"
  /\ \A d : CallReleaseDevice(d).fn = "releaseDevice"
  /\ \A d, c : CallBeginIO(d, c).fn = "beginIO"
  /\ \A p : CallTerminateProcess(p).fn = "terminateProcess" /\ CallTerminateProcess(p).pcb = p
  /\ \A p : CallTerminateChildren(p).fn = "terminateChildren" /\ CallTerminateChildren(p).pcb = p
  /\ CallScheduler.fn = "scheduler"
  BY DEF CallPasseren, CallVerhogen, CallReleaseDevice, CallBeginIO, CallTerminateProcess,
         CallTerminateChildren, CallScheduler

(* What RunInv says of processes, without the PCBs of the idle loop.       *)
CurrentInv == CurrentInTree /\ SchedulerHasNoCurrent /\ NoProcessLost

(* Where nothing is terminated the current process need not be on the      *)
(* stack.                                                                  *)
LEMMA QuietCurrent ==
  ASSUME kcall' \in Seq(Frame), Quiet(kcall')
  PROVE  CurrentInTree'
<1> SUFFICES ASSUME kcall' # <<>> PROVE Head(kcall').fn \notin TermFn
  BY DEF CurrentInTree
<1> QED
  BY PopStack DEF Quiet

(* What P and V return to.                                                 *)
LEMMA AfterSemaphore ==
  ASSUME IInv, IoInv, sysPasseren \/ sysVerhogen
  PROVE  Tail(kcall) # <<>> => Head(Tail(kcall)).fn \in {"beginIO", "releaseDevice"}
<1>1. PICK fn \in {"sysPasseren", "sysVerhogen"} : Running(fn)
  BY DEF sysPasseren, sysVerhogen
<1>2. SyscallStack \/ \E d \in Dev : Signalling(d)
  BY <1>1, RunningStack DEF IInv, IoInv
<1>3. \/ \E f : kcall = <<f>>
      \/ \E f, d : kcall = <<f, CallBeginIO(d, g_current_process)>>
      \/ \E f, d : kcall = <<f, CallReleaseDevice(d)>>
  BY <1>2 DEF SyscallStack, Asked, Claimed, Commanded, Signalling
<1> DEFINE t == Tail(kcall)
<1>4. \/ t = <<>>
      \/ \E d : t = <<CallBeginIO(d, g_current_process)>>
      \/ \E d : t = <<CallReleaseDevice(d)>>
  BY <1>3, ShortTails
<1> HIDE DEF t
<1>5. t # <<>> => Head(t).fn \in {"beginIO", "releaseDevice"}
  BY <1>4 DEF CallBeginIO, CallReleaseDevice
<1> QED
  BY <1>5 DEF t

(* P and V: a process goes from blocked to ready, or the current one       *)
(* blocks.                                                                 *)
LEMMA RunSemaphore == ASSUME IInv, IoInv, RunInv, IInv', sysPasseren \/ sysVerhogen PROVE CurrentInv'
<1> DEFINE s == Head(kcall).sem
<1>1. PICK fn \in {"sysPasseren", "sysVerhogen"} : Running(fn)
  BY DEF sysPasseren, sysVerhogen
<1>2. TypeOK /\ Queues /\ Head(kcall) \in Frame /\ Head(kcall).fn = fn /\ cpu = "kernel"
  BY <1>1, RunningFrame, InvariantQueues
<1>3. s \in SemAddr
  BY <1>2, FrameArguments
<1>4. /\ Quiet(kcall) /\ Quiet(kcall') /\ Dying = {} /\ Dying' = {}
      /\ Processes' = Processes /\ UNCHANGED g_old_state
  BY SemaphoresSpareTree, ContextsKept, QuietNobodyDies DEF Bystander, sysPasseren, sysVerhogen
<1>5. CurrentInTree'
  BY <1>4, QuietCurrent DEF IInv, TypeOK
<1>6. ASSUME Return, UNCHANGED <<cpu, g_current_process>>
      PROVE  SchedulerHasNoCurrent'
  <2>1. ~ Running("scheduler")'
    BY <1>6, AfterSemaphore DEF Running, Return
  <2>2. cpu' \notin IdlePoint
    BY <1>2, <1>6 DEF IdlePoint
  <2> QED
    BY <1>4, <1>6, <2>1, <2>2 DEF RunInv, SchedulerHasNoCurrent
<1>7. CASE s_procq[s] # <<>> /\ Wake(s)
  <2> DEFINE h == Head(s_procq[s])
  <2>1. h \in Pcb /\ Blocked' = Blocked \ {h}
    BY <1>2, <1>3, <1>7, RemoveBlockedQueues DEF Wake, Blocked
  <2>2. Ready' = Ready \cup {h} /\ UNCHANGED <<p_s, g_current_process>>
    BY <1>2, <1>7, <2>1, AppendQueue DEF Wake, Ready, TypeOK
  <2>3. SchedulerHasNoCurrent'
    BY <1>6, <1>7 DEF Wake
  <2> QED
    BY <1>4, <1>5, <2>1, <2>2, <2>3 DEF RunInv, CurrentInv, NoProcessLost
<1>8. CASE \E delta \in Int : Count(s, delta)
  <2>1. SchedulerHasNoCurrent'
    BY <1>6, <1>8 DEF Count
  <2>2. Ready' = Ready /\ Blocked' = Blocked /\ UNCHANGED <<p_s, g_current_process>>
    BY <1>8 DEF Count, queueVars, Ready, Blocked
  <2> QED
    BY <1>4, <1>5, <2>1, <2>2 DEF RunInv, CurrentInv, NoProcessLost
<1>9. CASE Block(s)
  <2>1. SyscallStack
    BY <1>9, OnlySyscallsBlock
  <2>2. g_current_process \in Live /\ g_current_process \in Pcb
    BY <1>2, <2>1, SyscallCurrent
  <2>3. /\ p_s' = [p_s EXCEPT ![g_current_process] = g_old_state]
        /\ Blocked' = Blocked \cup {g_current_process} /\ g_current_process' = NULL
        /\ UNCHANGED g_ready_queue
    BY <1>3, <1>9, <2>2, BlockCurrent
  <2>4. SchedulerHasNoCurrent'
    BY <2>3, NullAssumption DEF SchedulerHasNoCurrent, Processes, Live
  <2>5. NoProcessLost'
    BY <1>4, <2>3 DEF RunInv, NoProcessLost, Ready
  <2> QED
    BY <1>5, <2>4, <2>5 DEF CurrentInv
<1>10. (s_procq[s] # <<>> /\ Wake(s)) \/ (\E delta \in Int : Count(s, delta)) \/ Block(s)
  <2>1. Count(s, -1) \/ Count(s, 1) => \E delta \in Int : Count(s, delta)
    OBVIOUS
  <2> QED
    BY <2>1 DEF sysPasseren, sysVerhogen
<1> QED
  BY <1>7, <1>8, <1>9, <1>10

(* The steps of an operation that move no process.                         *)
LEMMA RunIo ==
  ASSUME IInv, IoInv, RunInv, IInv', beginIO \/ releaseDevice
  PROVE  CurrentInv'
<1>1. /\ Quiet(kcall) /\ Quiet(kcall') /\ Dying = {} /\ Dying' = {}
      /\ Processes' = Processes /\ cpu = "kernel"
  BY TreeUntouched, ContextsKept, QuietNobodyDies DEF Bystander, beginIO, releaseDevice, Running
<1>2. CurrentInTree'
  BY <1>1, QuietCurrent DEF IInv, TypeOK
<1>3. /\ UNCHANGED <<g_ready_queue, p_s, g_current_process, g_old_state, cpu, p_semAdd>>
      /\ ~ Running("scheduler")'
  <2>1. CASE beginIO
    <3>1. kcall' = <<CallPasseren(sync(Head(kcall).dev))>> \o Tail(kcall)
          /\ Tail(kcall) \in Seq(Frame)
      BY <2>1, PopStack, RunningFrame DEF beginIO, IInv
    <3>2. Head(kcall') = CallPasseren(sync(Head(kcall).dev))
      BY <3>1
    <3> QED
      BY <2>1, <3>2, FrameNames DEF beginIO, queueVars, Running
  <2>2. CASE releaseDevice
    <3>1. PICK d \in Dev : Releasing(d)
      BY <2>2, RunningStack DEF releaseDevice, IInv, IoInv
    <3>2. Head(kcall).dev = d /\ Tail(kcall) = <<>> /\ s_procq[mut(d)] = <<>>
      BY <3>1, ShortTails DEF Releasing, CallReleaseDevice, IoInv, DevicesInPhase
    <3>3. leaveDevice(d)
      BY <2>2, <3>2 DEF releaseDevice, passTheBaton
    <3> QED
      BY <2>2, <3>2, <3>3 DEF releaseDevice, leaveDevice, Return, Running
  <2> QED
    BY <2>1, <2>2
<1> QED
  BY <1>1, <1>2, <1>3 DEF RunInv, CurrentInv, NoProcessLost, SchedulerHasNoCurrent,
     Ready, Blocked, IdlePoint

(* The scheduler takes a process that is ready, or none.                   *)
LEMMA RunScheduler ==
  ASSUME IInv, IoInv, RunInv, IInv', dispatch \/ idle
  PROVE  CurrentInv'
<1>1. /\ Quiet(kcall) /\ Quiet(kcall') /\ Dying = {} /\ Dying' = {}
      /\ Processes' = Processes
      /\ Running("scheduler") /\ kcall' = <<>> /\ g_old_state' = NoContext
      /\ UNCHANGED p_semAdd
  BY TreeUntouched, ContextsKept, QuietNobodyDies DEF Bystander, dispatch, idle, schedUnchanged
<1>2. CurrentInTree'
  BY <1>1, QuietCurrent DEF IInv, TypeOK
<1>3. g_current_process \notin Processes /\ ~ Running("scheduler")' /\ g_old_state'.at \notin IdlePoint
  BY <1>1 DEF RunInv, SchedulerHasNoCurrent, Running, NoContext, IdlePoint
<1>4. CASE idle
  <2>1. UNCHANGED <<g_ready_queue, g_current_process, p_s>>
    BY <1>4 DEF idle
  <2> QED
    BY <1>1, <1>2, <1>3, <2>1 DEF RunInv, CurrentInv, NoProcessLost, SchedulerHasNoCurrent,
       Ready, Blocked
<1>5. CASE dispatch
  <2> DEFINE p == Head(g_ready_queue)
  <2>1. /\ g_ready_queue # <<>> /\ g_ready_queue' = Tail(g_ready_queue)
        /\ g_current_process' = p /\ cpu' = p_s[p].at
    BY <1>5 DEF dispatch
  <2>2. p \in Pcb /\ Ready = Ready' \cup {p}
    BY <2>1, TailQueue DEF IInv, TypeOK, Ready
  <2> HIDE DEF p
  <2>3. SchedulerHasNoCurrent'
    <3>1. CASE p_s[p].at = "user"
      BY <1>3, <2>1, <3>1 DEF SchedulerHasNoCurrent, IdlePoint
    <3>2. CASE p_s[p].at # "user"
      BY <1>1, <2>1, <3>2 DEF SchedulerHasNoCurrent, Processes
    <3> QED
      BY <3>1, <3>2
  <2>4. NoProcessLost'
    BY <1>1, <1>3, <2>1, <2>2 DEF RunInv, NoProcessLost, Blocked
  <2> QED
    BY <1>2, <2>3, <2>4 DEF CurrentInv
<1> QED
  BY <1>4, <1>5

(* The idle loop has no current process, and the return from an exception  *)
(* none that it did not have before.                                       *)
LEMMA RunIdleLoop ==
  ASSUME IInv, IoInv, RunInv, IInv', recheck \/ WAIT \/ wakeUp \/ LDST
  PROVE  CurrentInv'
<1>1. /\ Quiet(kcall) /\ Quiet(kcall') /\ Dying = {} /\ Dying' = {}
      /\ Processes' = Processes
      /\ UNCHANGED <<g_ready_queue, g_current_process, p_semAdd>>
  BY TreeUntouched, ContextsKept, QuietNobodyDies
     DEF Bystander, recheck, WAIT, wakeUp, LDST, schedUnchanged
<1>2. CurrentInTree'
  BY <1>1, QuietCurrent DEF IInv, TypeOK
<1>3. SchedulerHasNoCurrent'
  <2>1. CASE recheck \/ WAIT \/ wakeUp
    BY <1>1, <2>1 DEF recheck, WAIT, wakeUp, RunInv, SchedulerHasNoCurrent, IdlePoint
  <2>2. CASE LDST
    BY <1>1, <2>2 DEF LDST, RunInv, SchedulerHasNoCurrent, IdlePoint, Resume, Running, NoContext
  <2> QED
    BY <2>1, <2>2
<1> QED
  BY <1>1, <1>2, <1>3 DEF RunInv, CurrentInv, NoProcessLost, Ready, Blocked

(* A system call of the current process.                                   *)
LEMMA RunSyscall ==
  ASSUME IInv, IoInv, RunInv, IInv',
         SYSCALL_PASSEREN \/ SYSCALL_VERHOGEN \/ sysDoIO \/ sysDoIOPanic \/ sysClockWait
  PROVE  CurrentInv'
<1>1. /\ Quiet(kcall) /\ Quiet(kcall') /\ Dying = {} /\ Dying' = {}
      /\ Processes' = Processes
      /\ UNCHANGED <<g_ready_queue, g_current_process, p_semAdd>>
  BY TreeUntouched, ContextsKept, QuietNobodyDies DEF Bystander, SYSCALL_PASSEREN, SYSCALL_VERHOGEN, sysDoIO,
     sysDoIOPanic, sysClockWait, Syscall, queueVars
<1>2. CurrentInTree'
  BY <1>1, QuietCurrent DEF IInv, TypeOK
<1>3. SchedulerHasNoCurrent'
  <2>1. ASSUME NEW name, NEW frames, Syscall(name, frames), frames # <<>>, Head(frames).fn # "scheduler"
        PROVE  SchedulerHasNoCurrent'
    BY <2>1 DEF Syscall, SchedulerHasNoCurrent, IdlePoint, Running, NoContext
  <2>2. CASE sysDoIOPanic
    BY <2>2 DEF sysDoIOPanic, SchedulerHasNoCurrent, IdlePoint, Running
  <2>3. CASE SYSCALL_PASSEREN \/ SYSCALL_VERHOGEN \/ sysClockWait
    BY <2>1, <2>3, Tops, ShortTails DEF SYSCALL_PASSEREN, SYSCALL_VERHOGEN, sysClockWait
  <2>4. CASE sysDoIO
    BY <2>1, <2>4, FrameNames, ShortTails DEF sysDoIO
  <2> QED
    BY <2>2, <2>3, <2>4
<1> QED
  BY <1>1, <1>2, <1>3 DEF RunInv, CurrentInv, NoProcessLost, Ready, Blocked

(* An interrupt in the idle loop finds no process that is the current one, *)
(* and the end of a time slice leaves none.                                *)
LEMMA RunInterrupt ==
  ASSUME IInv, IoInv, RunInv, IInv',
         timerInUser \/ handleSysTimer \/ \E d \in Dev : handleDeviceInt(d)
  PROVE  CurrentInv'
<1>1. /\ Quiet(kcall) /\ Quiet(kcall') /\ Dying = {} /\ Dying' = {}
      /\ Processes' = Processes
      /\ TypeOK /\ Queues /\ ListsExclusive
  BY TreeUntouched, ContextsKept, QuietNobodyDies, InvariantQueues DEF Bystander, IInv
<1>2. CurrentInTree'
  BY <1>1, QuietCurrent DEF IInv, TypeOK
<1>3. CASE timerInUser
  <2> DEFINE p == g_current_process
  <2>1. p \in Pcb
    BY <1>3, UserIsLive DEF timerInUser
  <2>2. /\ g_ready_queue' = Append(g_ready_queue, p)
        /\ g_current_process' = NULL
        /\ UNCHANGED p_semAdd
    BY <1>3 DEF timerInUser, schedUnchanged
  <2>3. Ready' = Ready \cup {p} /\ Blocked' = Blocked
    BY <1>1, <2>1, <2>2, AppendQueue DEF Ready, Blocked, TypeOK
  <2> HIDE DEF p
  <2>4. SchedulerHasNoCurrent'
    BY <2>2, NullAssumption DEF SchedulerHasNoCurrent, Processes, Live
  <2> QED
    BY <1>1, <1>2, <2>3, <2>4 DEF RunInv, CurrentInv, NoProcessLost, p
<1>4. CASE handleSysTimer
  <2> DEFINE q == s_procq[g_pseudo_clock]
  <2>1. /\ cpu \in Interruptible /\ cpu' = Resume(cpu) /\ kcall = <<>> /\ UNCHANGED <<kcall, p_s, g_current_process>>
        /\ g_ready_queue' = g_ready_queue \o q
        /\ p_semAdd' = [p \in Pcb |-> IF p \in ToSet(q) THEN NULL ELSE p_semAdd[p]]
    BY <1>4, NoKernelNoStack, ContextTypes DEF handleSysTimer, IoInv
  <2>2. q \in Seq(Pcb)
    BY <1>1, SemAddrTypes DEF TypeOK
  <2> HIDE DEF q
  <2>3. Ready' = Ready \cup ToSet(q)
    BY <1>1, <2>1, <2>2, ConcatQueue DEF Ready, TypeOK
  <2>4. Blocked' = Blocked \ ToSet(q)
    BY <2>1 DEF Blocked
  <2>5. SchedulerHasNoCurrent'
    BY <1>1, <2>1 DEF RunInv, SchedulerHasNoCurrent, Interruptible, IdlePoint, Resume, Running
  <2> QED
    BY <1>1, <1>2, <2>1, <2>3, <2>4, <2>5 DEF RunInv, CurrentInv, NoProcessLost
<1>5. ASSUME NEW d \in Dev, handleDeviceInt(d)
      PROVE  CurrentInv'
  <2>1. /\ cpu \in Interruptible
        /\ g_old_state' = [NoContext EXCEPT !.at = cpu, !.call = "INT"]
        /\ UNCHANGED <<g_ready_queue, g_current_process, p_semAdd>>
    BY <1>5 DEF handleDeviceInt, queueVars
  <2>2. /\ cpu' \in {"kernel", "fault"}
        /\ kcall' \in {<<>>, <<CallVerhogen(sync(d)), CallReleaseDevice(d)>>}
    BY <1>5 DEF handleDeviceInt, endIO
  <2>3. ~ Running("scheduler")' /\ cpu' \notin IdlePoint
    BY <2>2, ShortTails, FrameNames DEF Running, IdlePoint
  <2>4. SchedulerHasNoCurrent'
    BY <1>1, <2>1, <2>3 DEF RunInv, SchedulerHasNoCurrent, NoContext
  <2> QED
    BY <1>1, <1>2, <2>1, <2>4 DEF RunInv, CurrentInv, NoProcessLost, Ready, Blocked
<1> QED
  BY <1>3, <1>4, <1>5

(* The timer in the idle loop leaves no current process either.            *)
LEMMA RunTimerInIdle ==
  ASSUME IInv, IoInv, RunInv, IInv', timerInIdle
  PROVE  CurrentInv'
<1>1. g_current_process \notin Processes
  BY DEF timerInIdle, RunInv, SchedulerHasNoCurrent
<1>2. /\ Quiet(kcall) /\ Quiet(kcall') /\ Dying = {} /\ Dying' = {}
      /\ Processes' = Processes
  BY <1>1, TimerAddsNoProcess, QuietNobodyDies
<1>3. CurrentInTree'
  BY <1>2, QuietCurrent DEF IInv, TypeOK
<1>4. g_ready_queue = <<>> /\ Ready = {} /\ Blocked' = Blocked
  BY EmptyQueue DEF timerInIdle, Ready, Blocked
<1>5. NoProcessLost'
  BY <1>1, <1>2, <1>4 DEF RunInv, NoProcessLost
<1>6. SchedulerHasNoCurrent'
  <2>1. CASE timerWithoutCurrent
    BY <2>1 DEF timerWithoutCurrent, SchedulerHasNoCurrent, Running, IdlePoint
  <2>2. CASE timerRevives
    BY <2>2, NullAssumption DEF timerRevives, SchedulerHasNoCurrent, Processes, Live
  <2> QED
    BY <2>1, <2>2 DEF timerInIdle
<1> QED
  BY <1>3, <1>5, <1>6 DEF CurrentInv

(* A new process is ready.                                                 *)
LEMMA RunCreate == ASSUME IInv, IoInv, RunInv, IInv', sysCreateProcess PROVE CurrentInv'
<1>1. PICK p \in pcbFree_h :
        /\ pcbFree_h' = pcbFree_h \ {p}
        /\ p_semAdd' = [p_semAdd EXCEPT ![p] = NULL]
        /\ p_s' = [p_s EXCEPT ![p] = NoContext]
        /\ g_ready_queue' = Append(g_ready_queue, p)
  BY DEF sysCreateProcess, allocPcb
<1>2. /\ TypeOK /\ cpu' = "user" /\ kcall = <<>> /\ kcall' = <<>> /\ UNCHANGED g_current_process
      /\ pcbFree_h \cap Blocked = {}
  BY NoKernelNoStack DEF sysCreateProcess, IInv, IoInv, ListsExclusive
<1>3. p \in Pcb /\ Processes' = Processes \cup {p} /\ Blocked' = Blocked
  BY <1>1, <1>2 DEF Processes, Live, TypeOK, Blocked, NoContext
<1>4. Ready' = Ready \cup {p}
  BY <1>1, <1>2, <1>3, AppendQueue DEF Ready, TypeOK
<1>5. Dying = {} /\ CurrentInTree'
  BY <1>2, QuietStacks, QuietNobodyDies, QuietCurrent, EmptyQueue
<1>6. SchedulerHasNoCurrent'
  BY <1>2 DEF SchedulerHasNoCurrent, IdlePoint, Running
<1> QED
  BY <1>2, <1>3, <1>4, <1>5, <1>6 DEF RunInv, CurrentInv, NoProcessLost

(* Taking a process from its parent changes no tree it is the root of.     *)
LEMMA SubtreeCut ==
  ASSUME NEW p \in Pcb, \A q \in Pcb : p_child[q] \subseteq p_child'[q] \cup {p}
  PROVE  Subtree(p) \subseteq Subtree(p)'
<1> SUFFICES ASSUME NEW x \in Subtree(p), NEW S \in SUBSET Pcb,
                    p \in S, \A r \in S : p_child'[r] \subseteq S
             PROVE  x \in Pcb /\ x \in S
  BY DEF Subtree
<1>1. \A r \in S : p_child[r] \subseteq S
  OBVIOUS
<1> QED
  BY <1>1 DEF Subtree

(* A child that is taken from its parent leaves the tree with its own one. *)
LEMMA SubtreeSplit ==
  ASSUME NEW p \in Pcb, NEW c \in Pcb, \A q \in Pcb : p_child[q] \subseteq p_child'[q] \cup {c}
  PROVE  Subtree(p) \subseteq Subtree(p)' \cup Subtree(c)'
<1> SUFFICES ASSUME NEW x \in Subtree(p), x \notin Subtree(p)', x \notin Subtree(c)'
             PROVE  FALSE
  OBVIOUS
<1>1. x \in Pcb
  BY DEF Subtree
<1>2. PICK S \in SUBSET Pcb : p \in S /\ (\A r \in S : p_child'[r] \subseteq S) /\ x \notin S
  BY <1>1 DEF Subtree
<1>3. PICK T \in SUBSET Pcb : c \in T /\ (\A r \in T : p_child'[r] \subseteq T) /\ x \notin T
  BY <1>1 DEF Subtree
<1>4. S \cup T \in SUBSET Pcb /\ p \in S \cup T /\ x \notin S \cup T
  BY <1>2, <1>3
<1>5. \A r \in S \cup T : p_child[r] \subseteq S \cup T
  BY <1>2, <1>3
<1> QED
  BY <1>4, <1>5 DEF Subtree

(* A process without children is a tree of its own.                        *)
LEMMA SubtreeLeaf ==
  ASSUME NEW p \in Pcb, p_child[p] = {}
  PROVE  Subtree(p) \subseteq {p}
<1>1. {p} \in SUBSET Pcb /\ \A r \in {p} : p_child[r] \subseteq {p}
  OBVIOUS
<1> QED
  BY <1>1, SubtreeLeast

(* SYS2 and a trap terminate a tree the current process belongs to.        *)
LEMMA RunTerminateCall ==
  ASSUME IInv, IoInv, TreeInv, RunInv, NEW p \in Pcb, sysTerminateProcess(p),
         g_current_process \in Subtree(p)
  PROVE  CurrentInv'
<1>1. /\ TypeOK /\ cpu = "user" /\ cpu' = "kernel"
      /\ kcall' = <<CallTerminateProcess(p), CallScheduler>>
      /\ g_old_state' = [NoContext EXCEPT !.call = "none"]
      /\ p_child' = outChild(p)
      /\ UNCHANGED <<g_ready_queue, g_current_process, p_s, p_semAdd, pcbFree_h>>
  BY DEF sysTerminateProcess, Syscall, queueVars, IInv
<1>2. Dying = {} /\ Dying' = {p}
  BY TreeTerminateCall
<1>3. CurrentInTree'
  <2>1. \A q \in Pcb : p_child[q] \subseteq p_child'[q] \cup {p}
    BY <1>1 DEF outChild, TypeOK
  <2>2. g_current_process' \in Subtree(p)'
    BY <1>1, <2>1, SubtreeCut
  <2>3. CallTerminateProcess(p) \in ToSet(kcall')
    BY <1>1, FrameTypes, NewStackOfTwo
  <2> QED
    BY <2>2, <2>3, FrameNames DEF CurrentInTree, TermFn
<1>4. SchedulerHasNoCurrent'
  BY <1>1, ShortTails, FrameNames DEF SchedulerHasNoCurrent, Running, IdlePoint, NoContext
<1> QED
  BY <1>1, <1>2, <1>3, <1>4 DEF RunInv, CurrentInv, NoProcessLost, Processes, Live, Ready, Blocked

(* terminateProcess takes a process off its semaphore that is on the stack. *)
LEMMA RunTerminateProcess ==
  ASSUME IInv, IoInv, TreeInv, RunInv, terminateProcess
  PROVE  CurrentInv'
<1> DEFINE p == Head(kcall).pcb
           f == CallTerminateChildren(p)
<1>1. TypeOK /\ Running("terminateProcess") /\ "terminateProcess" \in TermFn
  BY DEF terminateProcess, IInv, TermFn
<1>2. /\ kcall # <<>> /\ kcall \in Seq(Frame) /\ p \in Pcb /\ p \in Dying
      /\ Head(kcall).fn \in TermFn /\ Dying' = Dying
  BY <1>1, DyingStack, TreeTerminateProcess
<1>3. /\ f \in Frame /\ f.pcb = p /\ f.fn = "terminateChildren" /\ kcall' = <<f>> \o Tail(kcall)
      /\ UNCHANGED <<pcbFree_h, p_child, g_ready_queue, g_current_process, p_s, g_old_state, cpu>>
  BY <1>2, FrameTypes, FrameNames DEF terminateProcess, procVars
<1>4. Blocked \subseteq Blocked' \cup {p}
  <2>1. \A r \in Pcb \ {p} : p_semAdd'[r] = p_semAdd[r]
    BY <1>1, <1>2 DEF terminateProcess, outBlocked, TypeOK
  <2> QED
    BY <2>1 DEF Blocked
<1> HIDE DEF f
<1>5. /\ Tail(kcall) \in Seq(Frame) /\ ToSet(kcall) = ToSet(Tail(kcall)) \cup {Head(kcall)}
      /\ ToSet(kcall') = {f} \cup ToSet(Tail(kcall)) /\ Head(kcall') = f
  <2>1. Tail(kcall) \in Seq(Frame) /\ ToSet(kcall) = ToSet(Tail(kcall)) \cup {Head(kcall)}
    BY <1>2, TailQueue
  <2> DEFINE t == Tail(kcall)
  <2>2. t \in Seq(Frame) /\ f \in Frame /\ kcall' = <<f>> \o t
    BY <1>3, <2>1
  <2> HIDE DEF t
  <2>3. ToSet(<<f>> \o t) = {f} \cup ToSet(t) /\ Head(<<f>> \o t) = f
    BY <2>2, PushStack
  <2> QED
    BY <2>1, <2>2, <2>3 DEF t
<1>6. CurrentInTree'
  <2>1. ASSUME g_current_process \notin pcbFree_h
        PROVE  \E g \in ToSet(kcall') : g.fn \in TermFn /\ g_current_process \in Subtree(g.pcb)
    <3>1. PICK g \in ToSet(kcall) : g.fn \in TermFn /\ g_current_process \in Subtree(g.pcb)
      BY <1>2, <2>1 DEF RunInv, CurrentInTree
    <3>2. CASE g = Head(kcall)
      BY <1>3, <1>5, <3>1, <3>2 DEF TermFn
    <3> QED
      BY <1>5, <3>1, <3>2
  <2>2. \A q : Subtree(q)' = Subtree(q)
    BY <1>3 DEF Subtree
  <2> QED
    BY <1>3, <2>1, <2>2 DEF CurrentInTree
<1>7. SchedulerHasNoCurrent'
  BY <1>1, <1>3, <1>5 DEF RunInv, SchedulerHasNoCurrent, Running, Processes, Live, IdlePoint
<1> QED
  BY <1>2, <1>3, <1>4, <1>6, <1>7 DEF RunInv, CurrentInv, NoProcessLost, Processes, Live, Ready

(* The current process goes with its tree.                                 *)
LEMMA RunTerminateChildren ==
  ASSUME IInv, IoInv, TreeInv, RunInv, terminateChildren
  PROVE  CurrentInv'
<1> DEFINE p == Head(kcall).pcb
           cur == g_current_process
<1>1. TypeOK /\ Running("terminateChildren") /\ "terminateChildren" \in TermFn
  BY DEF terminateChildren, IInv, TermFn
<1>2. /\ kcall # <<>> /\ kcall \in Seq(Frame) /\ p \in Pcb /\ p \in Dying
      /\ Head(kcall).fn \in TermFn /\ TerminationStack(kcall)
  BY <1>1, DyingStack, TerminatedIsNoWaiter
<1>3. UNCHANGED <<p_parent, p_semAdd, p_s, g_current_process, g_old_state, cpu>>
  BY DEF terminateChildren
<1>4. cur \in pcbFree_h \/ \E g \in ToSet(kcall) : g.fn \in TermFn /\ cur \in Subtree(g.pcb)
  BY <1>2 DEF RunInv, CurrentInTree
<1>5. \A g \in ToSet(kcall) : g.fn \in TermFn => g.pcb \in Pcb
  BY <1>1, FrameArguments DEF TermFn, TypeOK, ToSet
<1>6. CASE terminateNext(p)
  <2>1. PICK c \in p_child[p] :
          /\ p_child' = [p_child EXCEPT ![p] = @ \ {c}]
          /\ kcall' = <<CallTerminateProcess(c)>> \o kcall
          /\ UNCHANGED <<pcbFree_h, p_parent, g_ready_queue>>
    BY <1>6, <1>3 DEF terminateNext
  <2>2. c \in Pcb /\ Dying' = Dying \cup {c}
    BY <1>1, <1>3, <2>1, TreeTerminateNext
  <2> DEFINE f == CallTerminateProcess(c)
  <2>3. f \in Frame /\ f.fn = "terminateProcess" /\ f.pcb = c /\ kcall' = <<f>> \o kcall
    BY <2>1, <2>2, FrameTypes, FrameNames
  <2> HIDE DEF f
  <2>4. ToSet(kcall') = {f} \cup ToSet(kcall) /\ Head(kcall') = f
    BY <1>2, <2>3, PushStack
  <2>5. \A q \in Pcb : p_child[q] \subseteq p_child'[q] \cup {c}
    BY <1>1, <1>2, <2>1 DEF TypeOK
  <2>6. CurrentInTree'
    <3>1. ASSUME cur \notin pcbFree_h
          PROVE  \E g \in ToSet(kcall') : g.fn \in TermFn /\ cur \in Subtree(g.pcb)'
      <4>1. PICK g \in ToSet(kcall) : g.fn \in TermFn /\ cur \in Subtree(g.pcb)
        BY <1>4, <3>1
      <4>2. cur \in Subtree(g.pcb)' \/ cur \in Subtree(c)'
        BY <1>5, <2>2, <2>5, <4>1, SubtreeSplit
      <4> QED
        BY <2>3, <2>4, <4>1, <4>2 DEF TermFn
    <3> QED
      BY <1>3, <2>1, <3>1 DEF CurrentInTree
  <2>7. SchedulerHasNoCurrent'
    BY <1>1, <1>3, <2>1, <2>3, <2>4
       DEF RunInv, SchedulerHasNoCurrent, Running, Processes, Live, IdlePoint
  <2> QED
    BY <1>3, <2>1, <2>2, <2>6, <2>7
       DEF RunInv, CurrentInv, NoProcessLost, Processes, Live, Ready, Blocked
<1>7. CASE terminated(p)
  <2>1. /\ p_child[p] = {} /\ kcall' = Tail(kcall) /\ pcbFree_h' = pcbFree_h \cup {p}
        /\ g_ready_queue' = RemoveFirst(g_ready_queue, p) /\ UNCHANGED p_child
    BY <1>7 DEF terminated, freePcb, Return
  <2>2. Dying \subseteq Dying' \cup {p}
    BY <1>1, <2>1, DyingStack
  <2>3. Ready' = Ready \ {p}
    BY <2>1, RemoveFirstQueue DEF IInv, TypeOK, ListsExclusive, Ready
  <2>4. ToSet(kcall) = ToSet(kcall') \cup {Head(kcall)}
    BY <1>2, <2>1, TailQueue
  <2>5. cur \in pcbFree_h' \/ \E g \in ToSet(kcall') : g.fn \in TermFn /\ cur \in Subtree(g.pcb)
    <3>1. Subtree(p) \subseteq {p}
      BY <1>2, <2>1, SubtreeLeaf
    <3> QED
      BY <1>4, <2>1, <2>4, <3>1
  <2>6. CurrentInTree'
    <3>1. \A q : Subtree(q)' = Subtree(q)
      BY <2>1 DEF Subtree
    <3> QED
      BY <1>3, <2>5, <3>1 DEF CurrentInTree
  <2>7. SchedulerHasNoCurrent'
    <3>1. ASSUME Running("scheduler")'
          PROVE  cur \in pcbFree_h'
      <4>1. kcall' \in Seq(Frame) /\ TerminationStack(kcall') /\ Head(kcall').fn = "scheduler"
        BY <1>2, <2>1, <3>1, PopStack, TerminationTop DEF Running
      <4>2. kcall' = <<CallScheduler>>
        BY <4>1, TerminationTop
      <4>3. Quiet(kcall')
        BY <4>2, QuietStacks
      <4> QED
        BY <2>5, <4>3 DEF Quiet
    <3> QED
      BY <1>1, <1>3, <2>1, <3>1
         DEF RunInv, SchedulerHasNoCurrent, Running, Processes, Live, IdlePoint
  <2> QED
    BY <1>3, <2>1, <2>2, <2>3, <2>6, <2>7
       DEF RunInv, CurrentInv, NoProcessLost, Processes, Live, Blocked
<1> QED
  BY <1>6, <1>7 DEF terminateChildren

(* The PCBs that hold the context of the idle loop.                        *)
IdlePcb == {p \in Pcb : p_s[p].at # "user"}

(* They stay apart as long as none is added, and while the scheduler is    *)
(* not about to dispatch one.                                              *)
LEMMA ApartKept ==
  ASSUME IdleLoopApart, IdlePcb' \subseteq IdlePcb, IdlePcb \cap Ready = {},
         \A p \in IdlePcb :
           /\ p \in Live' /\ p \notin Blocked' \cup Dying' \cup Ready'
           /\ p_child'[p] = {} /\ \A q \in Pcb : p \notin p_child'[q]
  PROVE  IdleLoopApart'
  BY DEF IdleLoopApart, IdlePcb

(* Only the scheduler finds one in the ready queue.                        *)
LEMMA IdlePcbNotReady ==
  ASSUME IdleLoopApart, cpu # "kernel" \/ kcall # <<CallScheduler>>
  PROVE  IdlePcb \cap Ready = {}
  BY DEF IdleLoopApart, IdlePcb

(* The scheduler may dispatch one, and then it is not ready any more.      *)
LEMMA ApartScheduler ==
  ASSUME IInv, IoInv, RunInv, dispatch \/ idle
  PROVE  IdleLoopApart'
<1>1. /\ IdlePcb' = IdlePcb /\ Live' = Live /\ Dying' = {} /\ UNCHANGED <<p_child, p_semAdd>>
  BY TreeUntouched, ContextsKept, QuietNobodyDies
     DEF Bystander, IdlePcb, Live, dispatch, idle, schedUnchanged
<1>2. \A p \in IdlePcb : p \notin Ready'
  <2>1. CASE idle
    BY <2>1, EmptyQueue DEF idle, Ready
  <2>2. CASE dispatch
    <3>1. g_ready_queue \in Seq(Pcb) /\ g_ready_queue' = Tail(g_ready_queue)
      BY <2>2 DEF dispatch, IInv, TypeOK
    <3>2. Ready' \subseteq Ready
      BY <2>2, <3>1, TailQueue DEF Ready, dispatch
    <3>3. ASSUME NEW p \in IdlePcb, p \in Ready PROVE Ready' = {}
      <4>1. g_ready_queue = <<p>>
        BY <3>3 DEF RunInv, IdleLoopApart, IdlePcb
      <4>2. g_ready_queue' = <<>>
        BY <3>1, <4>1, ShortTails
      <4> QED
        BY <4>2, EmptyQueue DEF Ready
    <3> QED
      BY <3>2, <3>3
  <2> QED
    BY <2>1, <2>2
<1> QED
  BY <1>1, <1>2 DEF RunInv, IdleLoopApart, IdlePcb, Blocked

(* P and V never wake one, nor block one.                                  *)
LEMMA ApartSemaphore ==
  ASSUME IInv, IoInv, RunInv, sysPasseren \/ sysVerhogen
  PROVE  IdleLoopApart'
<1> DEFINE s == Head(kcall).sem
<1>1. PICK fn \in {"sysPasseren", "sysVerhogen"} : Running(fn)
  BY DEF sysPasseren, sysVerhogen
<1>2. TypeOK /\ Queues /\ Head(kcall) \in Frame /\ Head(kcall).fn = fn /\ cpu = "kernel"
  BY <1>1, RunningFrame, InvariantQueues
<1>3. s \in SemAddr /\ kcall # <<CallScheduler>>
  BY <1>2, FrameArguments, FrameNames, ShortTails
<1>4. /\ IdlePcb' = IdlePcb /\ Live' = Live /\ Dying' = {} /\ UNCHANGED p_child
  BY TreeUntouched, ContextsKept, QuietNobodyDies DEF Bystander, IdlePcb, Live
<1>5. IdlePcb \cap Ready = {} /\ IdlePcb \cap Blocked = {}
  BY <1>3, IdlePcbNotReady DEF RunInv, IdleLoopApart, IdlePcb
<1>6. \A p \in IdlePcb : p \notin Blocked' \cup Ready'
  <2>1. CASE s_procq[s] # <<>> /\ Wake(s)
    <3> DEFINE h == Head(s_procq[s])
    <3>1. h \in Blocked /\ Blocked' = Blocked \ {h}
      BY <1>2, <1>3, <2>1, RemoveBlockedQueues DEF Wake
    <3>2. Ready' = Ready \cup {h}
      BY <1>2, <2>1, <3>1, AppendQueue DEF Wake, Ready, TypeOK, Blocked
    <3> QED
      BY <1>5, <3>1, <3>2
  <2>2. CASE \E delta \in Int : Count(s, delta)
    BY <1>5, <2>2 DEF Count, queueVars, Ready, Blocked
  <2>3. CASE Block(s)
    <3>1. g_current_process \in Processes /\ g_current_process \in Live
      BY <1>2, <2>3, OnlySyscallsBlock, SyscallCurrent
    <3>2. Blocked' = Blocked \cup {g_current_process} /\ UNCHANGED g_ready_queue
      BY <1>3, <2>3, <3>1, BlockCurrent
    <3> QED
      BY <1>5, <3>1, <3>2 DEF Ready, IdlePcb, Processes
  <2>4. (s_procq[s] # <<>> /\ Wake(s)) \/ (\E delta \in Int : Count(s, delta)) \/ Block(s)
    <3>1. Count(s, -1) \/ Count(s, 1) => \E delta \in Int : Count(s, delta)
      OBVIOUS
    <3> QED
      BY <3>1 DEF sysPasseren, sysVerhogen
  <2> QED
    BY <2>1, <2>2, <2>3, <2>4
<1> QED
  BY <1>4, <1>5, <1>6, ApartKept DEF RunInv, IdleLoopApart, IdlePcb

(* The other steps that leave the tree alone.                              *)
LEMMA ApartBystander ==
  ASSUME IInv, IoInv, RunInv, Bystander
  PROVE  IdleLoopApart'
<1>1. /\ IdlePcb' = IdlePcb /\ Live' = Live /\ Dying' = {} /\ UNCHANGED p_child
      /\ TypeOK /\ Queues
  BY TreeUntouched, ContextsKept, QuietNobodyDies, InvariantQueues DEF IdlePcb, Live, IInv
<1>2. CASE \/ beginIO \/ releaseDevice \/ recheck \/ WAIT \/ wakeUp \/ LDST
           \/ SYSCALL_PASSEREN \/ SYSCALL_VERHOGEN \/ sysDoIO \/ sysDoIOPanic \/ sysClockWait
           \/ timerInUser \/ handleSysTimer \/ \E d \in Dev : handleDeviceInt(d)
  <2>1. cpu # "kernel" \/ kcall # <<CallScheduler>>
    <3>1. CASE beginIO \/ releaseDevice
      BY <3>1, FrameNames, ShortTails DEF beginIO, releaseDevice, Running
    <3>2. CASE LDST
      BY <3>2 DEF LDST
    <3>3. CASE \/ recheck \/ WAIT \/ wakeUp
               \/ SYSCALL_PASSEREN \/ SYSCALL_VERHOGEN \/ sysDoIO \/ sysDoIOPanic \/ sysClockWait
               \/ timerInUser \/ handleSysTimer \/ \E d \in Dev : handleDeviceInt(d)
      BY <3>3, ContextTypes DEF recheck, WAIT, wakeUp, SYSCALL_PASSEREN, SYSCALL_VERHOGEN, sysDoIO,
         sysDoIOPanic, sysClockWait, Syscall, timerInUser, handleSysTimer, handleDeviceInt
    <3> QED
      BY <1>2, <3>1, <3>2, <3>3
  <2>2. IdlePcb \cap Ready = {} /\ IdlePcb \cap Blocked = {}
    BY <2>1, IdlePcbNotReady DEF RunInv, IdleLoopApart, IdlePcb
  <2>3. \A p \in IdlePcb : p \notin Blocked' \cup Ready'
    <3>1. CASE releaseDevice
      <4>1. PICK d \in Dev : Releasing(d)
        BY <3>1, RunningStack DEF releaseDevice, IInv, IoInv
      <4>2. Head(kcall).dev = d /\ s_procq[mut(d)] = <<>>
        BY <4>1, ShortTails DEF Releasing, CallReleaseDevice, IoInv, DevicesInPhase
      <4> QED
        BY <2>2, <3>1, <4>2 DEF releaseDevice, passTheBaton, leaveDevice, Ready, Blocked
    <3>2. CASE timerInUser
      <4>1. g_current_process \in Processes /\ g_current_process \in Pcb
        BY <3>2, UserIsLive DEF timerInUser
      <4>2. Ready' = Ready \cup {g_current_process} /\ Blocked' = Blocked
        BY <1>1, <3>2, <4>1, AppendQueue DEF timerInUser, schedUnchanged, Ready, Blocked, TypeOK
      <4> QED
        BY <2>2, <4>1, <4>2 DEF IdlePcb, Processes
    <3>3. CASE handleSysTimer
      <4> DEFINE q == s_procq[g_pseudo_clock]
      <4>1. /\ g_ready_queue' = g_ready_queue \o q
            /\ p_semAdd' = [p \in Pcb |-> IF p \in ToSet(q) THEN NULL ELSE p_semAdd[p]]
        BY <3>3 DEF handleSysTimer
      <4>2. q \in Seq(Pcb) /\ ToSet(q) \subseteq Blocked
        BY <1>1, SemAddrTypes, QueuedIsBlocked DEF TypeOK
      <4> HIDE DEF q
      <4>3. Ready' = Ready \cup ToSet(q) /\ Blocked' \subseteq Blocked
        BY <1>1, <4>1, <4>2, ConcatQueue DEF Ready, Blocked, TypeOK
      <4> QED
        BY <2>2, <4>2, <4>3
    <3>4. CASE \/ beginIO \/ recheck \/ WAIT \/ wakeUp \/ LDST
               \/ SYSCALL_PASSEREN \/ SYSCALL_VERHOGEN \/ sysDoIO \/ sysDoIOPanic \/ sysClockWait
               \/ \E d \in Dev : handleDeviceInt(d)
      <4>1. UNCHANGED <<p_semAdd, g_ready_queue>>
        BY <3>4 DEF beginIO, recheck, WAIT, wakeUp, LDST, SYSCALL_PASSEREN, SYSCALL_VERHOGEN,
           sysDoIO, sysDoIOPanic, sysClockWait, Syscall, handleDeviceInt, schedUnchanged, queueVars
      <4> QED
        BY <2>2, <4>1 DEF Ready, Blocked
    <3> QED
      BY <1>2, <3>1, <3>2, <3>3, <3>4
  <2> QED
    BY <1>1, <2>2, <2>3, ApartKept DEF RunInv, IdleLoopApart, IdlePcb
<1> QED
  BY <1>2, ApartSemaphore, ApartScheduler DEF Bystander

(* The timer adds one, whose PCB was free: it has no children and is not   *)
(* blocked.                                                                *)
LEMMA ApartTimer ==
  ASSUME IInv, IoInv, TreeInv, RunInv, timerInIdle
  PROVE  IdleLoopApart'
<1> DEFINE c == g_current_process
<1>1. /\ TypeOK /\ ListsExclusive /\ cpu = "kernel" /\ g_ready_queue = <<>>
      /\ c \notin Processes /\ UNCHANGED <<p_child, p_semAdd>>
  BY DEF timerInIdle, Running, IInv, RunInv, SchedulerHasNoCurrent
<1>2. Dying' = {} /\ Blocked' = Blocked
  BY <1>1, TimerAddsNoProcess, QuietNobodyDies DEF Blocked
<1>3. CASE timerWithoutCurrent
  <2>1. UNCHANGED <<pcbFree_h, p_s, g_ready_queue>> /\ Ready' = {}
    BY <1>1, <1>3, EmptyQueue DEF timerWithoutCurrent, Ready
  <2> QED
    BY <1>1, <1>2, <2>1 DEF RunInv, IdleLoopApart, Live
<1>4. CASE timerRevives
  <2>1. /\ c \in Pcb /\ p_s' = [p_s EXCEPT ![c] = idleLoop] /\ UNCHANGED cpu
        /\ pcbFree_h' = pcbFree_h \ {c} /\ kcall' = <<CallScheduler>>
        /\ g_ready_queue' = <<c>>
    BY <1>1, <1>4 DEF timerRevives, TypeOK
  <2>2. c \notin Blocked /\ p_child[c] = {} /\ \A q \in Pcb : c \notin p_child[q]
    <3>1. CASE c \in pcbFree_h
      BY <1>1, <2>1, <3>1 DEF TreeInv, ListsExclusive, Live
    <3>2. CASE c \notin pcbFree_h
      <4>1. p_s[c].at # "user"
        BY <1>1, <2>1, <3>2 DEF Processes, Live
      <4> QED
        BY <2>1, <4>1 DEF RunInv, IdleLoopApart
    <3> QED
      BY <3>1, <3>2
  <2> HIDE DEF c
  <2>3. Ready' = {c}
    BY <2>1, SingleFrame DEF Ready
  <2>4. \A p \in Pcb \ {c} : p_s'[p] = p_s[p]
    BY <1>1, <2>1 DEF TypeOK
  <2> SUFFICES ASSUME NEW p \in Pcb, p_s'[p].at # "user"
               PROVE  /\ p \in Live' /\ p \notin Blocked' \cup Dying'
                      /\ p_child'[p] = {} /\ \A q \in Pcb : p \notin p_child'[q]
                      /\ p \in Ready' => /\ g_ready_queue' = <<p>> /\ cpu' = "kernel"
                                         /\ kcall' = <<CallScheduler>>
    BY DEF IdleLoopApart
  <2>5. CASE p = c
    BY <1>1, <1>2, <2>1, <2>2, <2>5 DEF Live
  <2>6. CASE p # c
    <3>1. p_s[p].at # "user"
      BY <2>4, <2>6
    <3>2. /\ p \in Live /\ p \notin Blocked
          /\ p_child[p] = {} /\ \A q \in Pcb : p \notin p_child[q]
      BY <3>1 DEF RunInv, IdleLoopApart
    <3> QED
      BY <1>1, <1>2, <2>1, <2>3, <2>6, <3>2 DEF Live
  <2> QED
    BY <2>5, <2>6
<1> QED
  BY <1>3, <1>4 DEF timerInIdle

(* A new process is none of them, and its parent is not.                   *)
LEMMA ApartCreate ==
  ASSUME IInv, IoInv, RunInv, sysCreateProcess
  PROVE  IdleLoopApart'
<1> DEFINE c == g_current_process
<1>1. /\ TypeOK /\ cpu = "user" /\ c \in Pcb /\ c \in Processes
      /\ pcbFree_h \cap Blocked = {} /\ UNCHANGED kcall /\ kcall = <<>>
  BY UserIsLive, NoKernelNoStack DEF sysCreateProcess, IInv, IoInv, ListsExclusive
<1> HIDE DEF c
<1>2. PICK p \in pcbFree_h :
        /\ pcbFree_h' = pcbFree_h \ {p}
        /\ p_semAdd' = [p_semAdd EXCEPT ![p] = NULL]
        /\ p_s' = [p_s EXCEPT ![p] = NoContext]
        /\ p_child' = [[p_child EXCEPT ![p] = {}] EXCEPT ![c] = @ \cup {p}]
        /\ g_ready_queue' = Append(g_ready_queue, p)
  BY DEF sysCreateProcess, allocPcb, insertChild, c
<1>3. p \in Pcb /\ p \notin IdlePcb /\ c \notin IdlePcb
  BY <1>1, <1>2 DEF TypeOK, RunInv, IdleLoopApart, IdlePcb, Live, Processes
<1>4. IdlePcb' \subseteq IdlePcb /\ Live \subseteq Live'
  BY <1>1, <1>2, <1>3 DEF IdlePcb, Live, TypeOK, NoContext
<1>5. Blocked' = Blocked /\ Dying' = {}
  BY <1>1, <1>2, <1>3, QuietStacks, QuietNobodyDies DEF Blocked, TypeOK
<1>6. Ready' = Ready \cup {p}
  BY <1>1, <1>2, <1>3, AppendQueue DEF Ready, TypeOK
<1>7. IdlePcb \cap Ready = {}
  BY <1>1, IdlePcbNotReady DEF RunInv
<1>8. \A x \in IdlePcb : p_child'[x] = {} /\ \A q \in Pcb : x \notin p_child'[q]
  <2>1. \A x \in IdlePcb : x \in Pcb /\ x # p /\ x # c
                          /\ p_child[x] = {} /\ \A q \in Pcb : x \notin p_child[q]
    BY <1>3 DEF RunInv, IdleLoopApart, IdlePcb
  <2>2. \A q \in Pcb : p_child'[q] \subseteq p_child[q] \cup {p}
    BY <1>1, <1>2, <1>3 DEF TypeOK
  <2>3. \A x \in Pcb \ {p, c} : p_child'[x] = p_child[x]
    BY <1>1, <1>2, <1>3 DEF TypeOK
  <2> QED
    BY <2>1, <2>2, <2>3
<1> QED
  BY <1>3, <1>4, <1>5, <1>6, <1>7, <1>8, ApartKept DEF RunInv, IdleLoopApart, IdlePcb

(* A process that a running process may terminate is none of them: it has  *)
(* a tree.                                                                 *)
LEMMA TerminatedIsProcess ==
  ASSUME IInv, RunInv, cpu = "user", NEW p \in Live, g_current_process \in Subtree(p)
  PROVE  p \in Processes
<1>1. p \in Pcb
  BY DEF Live
<1>2. ASSUME p_s[p].at # "user" PROVE FALSE
  <2>1. g_current_process = p
    BY <1>1, <1>2, SubtreeLeaf DEF RunInv, IdleLoopApart
  <2> QED
    BY <1>2, <2>1, UserIsLive DEF Processes
<1> QED
  BY <1>2 DEF Processes

LEMMA ApartTerminateCall ==
  ASSUME IInv, IoInv, TreeInv, RunInv, NEW p \in Processes, sysTerminateProcess(p)
  PROVE  IdleLoopApart'
<1>1. /\ TypeOK /\ p \in Pcb /\ cpu = "user" /\ p_child' = outChild(p)
      /\ UNCHANGED <<p_s, pcbFree_h, p_semAdd, g_ready_queue>>
  BY DEF sysTerminateProcess, Syscall, queueVars, IInv, Processes, Live
<1>2. Dying' = {p} /\ p \notin IdlePcb
  BY <1>1, TreeTerminateCall DEF IdlePcb, Processes
<1>3. \A q \in Pcb : p_child'[q] \subseteq p_child[q]
  BY <1>1 DEF outChild, TypeOK
<1>4. IdlePcb \cap Ready = {}
  BY <1>1, IdlePcbNotReady DEF RunInv
<1> QED
  BY <1>1, <1>2, <1>3, <1>4, ApartKept DEF RunInv, IdleLoopApart, IdlePcb, Live, Blocked, Ready

(* The termination of a tree does not reach one.                           *)
LEMMA ApartTermination ==
  ASSUME IInv, IoInv, TreeInv, RunInv, terminateProcess \/ terminateChildren
  PROVE  IdleLoopApart'
<1> DEFINE p == Head(kcall).pcb
<1>1. PICK fn \in TermFn : TypeOK /\ Running(fn)
  BY DEF terminateProcess, terminateChildren, IInv, TermFn
<1>2. p \in Pcb /\ p \in Dying /\ kcall # <<>> /\ kcall \in Seq(Frame)
  BY <1>1, DyingStack
<1>3. p \notin IdlePcb /\ UNCHANGED p_s
  BY <1>2 DEF RunInv, IdleLoopApart, IdlePcb, terminateProcess, terminateChildren
<1>4. IdlePcb \cap Ready = {}
  BY <1>1, FrameNames, ShortTails, IdlePcbNotReady DEF RunInv, Running, TermFn
<1>5. CASE terminateProcess
  <2>1. Dying' = Dying /\ UNCHANGED <<pcbFree_h, p_child, g_ready_queue>>
    BY <1>5, TreeTerminateProcess DEF terminateProcess, procVars
  <2>2. Blocked' \subseteq Blocked
    BY <1>1, <1>2, <1>5 DEF terminateProcess, outBlocked, Blocked, TypeOK
  <2> QED
    BY <1>3, <1>4, <2>1, <2>2, ApartKept DEF RunInv, IdleLoopApart, IdlePcb, Live, Ready
<1>6. CASE terminateChildren /\ terminateNext(p)
  <2>1. PICK c \in p_child[p] :
          /\ p_child' = [p_child EXCEPT ![p] = @ \ {c}]
          /\ kcall' = <<CallTerminateProcess(c)>> \o kcall
          /\ UNCHANGED <<pcbFree_h, p_parent, g_ready_queue, p_semAdd>>
    BY <1>6 DEF terminateNext, terminateChildren
  <2>2. c \in Pcb /\ Dying' = Dying \cup {c}
    BY <1>1, <1>3, <1>6, <2>1, TreeTerminateNext DEF terminateChildren
  <2>3. c \notin IdlePcb
    BY <1>2, <2>1, <2>2 DEF RunInv, IdleLoopApart, IdlePcb
  <2>4. \A q \in Pcb : p_child'[q] \subseteq p_child[q]
    BY <1>1, <1>2, <2>1 DEF TypeOK
  <2> QED
    BY <1>3, <1>4, <2>1, <2>2, <2>3, <2>4, ApartKept
       DEF RunInv, IdleLoopApart, IdlePcb, Live, Ready, Blocked
<1>7. CASE terminateChildren /\ terminated(p)
  <2>1. /\ kcall' = Tail(kcall) /\ pcbFree_h' = pcbFree_h \cup {p}
        /\ g_ready_queue' = RemoveFirst(g_ready_queue, p) /\ UNCHANGED <<p_child, p_semAdd>>
    BY <1>7 DEF terminated, freePcb, Return, terminateChildren
  <2>2. Dying' \subseteq Dying
    BY <1>1, <2>1, DyingStack
  <2>3. Ready' = Ready \ {p}
    BY <2>1, RemoveFirstQueue DEF IInv, TypeOK, ListsExclusive, Ready
  <2> QED
    BY <1>3, <1>4, <2>1, <2>2, <2>3, ApartKept DEF RunInv, IdleLoopApart, IdlePcb, Live, Blocked
<1> QED
  BY <1>5, <1>6, <1>7 DEF terminateChildren

(* Every step keeps the invariant of the current process.                  *)
LEMMA NextRunInv ==
  ASSUME LifeClient, IInv, IoInv, TreeInv, RunInv, [Next]_vars, IInv'
  PROVE  RunInv'
<1>1. CASE KernelStep
  <2>1. CurrentInv'
    BY <1>1, RunSemaphore, RunIo, RunTerminateProcess, RunTerminateChildren, RunScheduler,
       RunIdleLoop DEF KernelStep
  <2>2. IdleLoopApart'
    BY <1>1, ApartBystander, ApartTermination DEF KernelStep, Bystander
  <2> QED
    BY <2>1, <2>2 DEF CurrentInv, RunInv
<1>2. CASE UserStep
  <2>1. ASSUME NEW p \in Live, sysTerminateProcess(p), g_current_process \in Subtree(p)
        PROVE  RunInv'
    <3>1. p \in Processes /\ p \in Pcb
      BY <2>1, TerminatedIsProcess DEF sysTerminateProcess, Syscall, Live
    <3> QED
      BY <2>1, <3>1, RunTerminateCall, ApartTerminateCall DEF CurrentInv, RunInv
  <2>2. CASE SYSCALL_TERMPROCESS
    <3>1. PICK p \in Live : MayTerminate(p) /\ sysTerminateProcess(p)
      BY <2>2 DEF SYSCALL_TERMPROCESS, LifeClient, Live
    <3>2. g_current_process \in Subtree(p)
      BY <3>1 DEF MayTerminate, LifeClient, Live
    <3> QED
      BY <2>1, <3>1, <3>2
  <2>3. CASE passUpOrDie
    <3>1. g_current_process \in Live /\ g_current_process \in Subtree(g_current_process)
      BY <2>3, UserIsLive, SubtreeClosed DEF passUpOrDie, IInv, Live
    <3> QED
      BY <2>1, <2>3, <3>1 DEF passUpOrDie
  <2>4. CASE sysCreateProcess
    BY <2>4, RunCreate, ApartCreate DEF CurrentInv, RunInv
  <2>5. CASE SYSCALL_PASSEREN \/ SYSCALL_VERHOGEN \/ sysDoIO \/ sysDoIOPanic \/ sysClockWait
    BY <2>5, RunSyscall, ApartBystander DEF Bystander, CurrentInv, RunInv
  <2> QED
    BY <1>2, <2>2, <2>3, <2>4, <2>5 DEF UserStep
<1>3. CASE InterruptStep
  <2>1. CASE timerInUser \/ handleSysTimer \/ \E d \in Dev : handleDeviceInt(d)
    BY <2>1, RunInterrupt, ApartBystander DEF Bystander, CurrentInv, RunInv
  <2>2. CASE timerInIdle
    BY <2>2, RunTimerInIdle, ApartTimer DEF CurrentInv, RunInv
  <2> QED
    BY <1>3, <2>1, <2>2 DEF InterruptStep, handleLocalTimer
<1>4. CASE (\E d \in Dev : DeviceDone(d)) \/ Stop \/ UNCHANGED vars
  <2>1. UNCHANGED <<pcbFree_h, p_child, p_semAdd, p_s, g_ready_queue, g_current_process,
                    g_old_state, cpu, kcall>>
    BY <1>4 DEF DeviceDone, Stop, vars, procVars, queueVars
  <2>2. /\ Processes' = Processes /\ Live' = Live /\ Ready' = Ready /\ Blocked' = Blocked
        /\ Dying' = Dying /\ \A q : Subtree(q)' = Subtree(q)
    BY <2>1 DEF Processes, Live, Ready, Blocked, Dying, Subtree
  <2> QED
    BY <2>1, <2>2 DEF RunInv, CurrentInTree, SchedulerHasNoCurrent, IdleLoopApart, NoProcessLost,
       Running
<1> QED
  BY <1>1, <1>2, <1>3, <1>4 DEF Next

(* At the start the only process is ready, and none is current.            *)
LEMMA InitRunInv == Init => RunInv
<1> SUFFICES ASSUME Init PROVE RunInv
  OBVIOUS
<1>1. PICK root \in Pcb :
        /\ pcbFree_h = Pcb \ {root} /\ g_ready_queue = <<root>> /\ g_current_process = NULL
        /\ p_s = [p \in Pcb |-> NoContext] /\ kcall = <<CallScheduler>>
  BY DEF Init
<1>2. Live = {root} /\ Ready = {root}
  BY <1>1, SingleFrame DEF Live, Ready
<1>3. Head(kcall).fn = "scheduler"
  BY <1>1, ShortTails, FrameNames
<1> QED
  BY <1>1, <1>2, <1>3, NullAssumption DEF RunInv, CurrentInTree, SchedulerHasNoCurrent,
     IdleLoopApart, NoProcessLost, Processes, Live, TermFn, NoContext

(* The invariant of the current process, for clients that follow the       *)
(* discipline; they may still use wrong addresses.                         *)
THEOREM RunInvariance == ASSUME LifeClient PROVE Spec => []RunInv
<1>1. IoClient
  BY DEF LifeClient
<1>2. IInv /\ IoInv /\ TreeInv /\ RunInv /\ [Next]_vars /\ IInv' => RunInv'
  BY NextRunInv
<1>3. Spec => []IoInv
  BY <1>1, IoInvariance
<1>4. Spec => []TreeInv
  BY <1>1, TreeInvariance
<1> QED
  BY <1>2, <1>3, <1>4, InitRunInv, Invariance, PTL DEF Spec

(* The kernel loses no process: each one runs, is ready, is blocked or is  *)
(* being terminated.                                                       *)
THEOREM NobodyLost == ASSUME LifeClient PROVE Spec => []NoProcessLost
<1>1. RunInv => NoProcessLost
  BY DEF RunInv
<1> QED
  BY <1>1, RunInvariance, PTL

-----------------------------------------------------------------------------
(* The count *)

(* A frame for a process that is not on the stack yet.                     *)
LEMMA OncePush ==
  ASSUME NEW k \in Seq(Frame), NEW f \in Frame, DyingOnce(k),
         \A g \in ToSet(k) : g.fn \in TermFn => g.pcb # f.pcb
  PROVE  DyingOnce(<<f>> \o k)
<1> DEFINE a == <<f>> \o k
           n == Len(k)
<1>1. n \in Nat /\ Len(a) = n + 1 /\ a[1] = f /\ \A i \in 1 .. n : a[i + 1] = k[i]
  OBVIOUS
<1>2. \A i \in 1 .. n : k[i] \in ToSet(k)
  BY DEF ToSet
<1>3. \A i, j \in 1 .. n :
        k[i].fn \in TermFn /\ k[j].fn \in TermFn /\ k[i].pcb = k[j].pcb => i = j
  BY DEF DyingOnce
<1> HIDE DEF a, n
<1>4. \A i \in 1 .. n + 1 : i = 1 \/ (i - 1 \in 1 .. n /\ a[i] = k[i - 1] /\ a[i] \in ToSet(k))
  <2> TAKE i \in 1 .. n + 1
  <2>1. ASSUME i # 1
        PROVE  i - 1 \in 1 .. n /\ (i - 1) + 1 = i
    BY <1>1, <2>1
  <2> QED
    BY <1>1, <1>2, <2>1
<1> SUFFICES ASSUME NEW i \in 1 .. n + 1, NEW j \in 1 .. n + 1,
                    a[i].fn \in TermFn, a[j].fn \in TermFn, a[i].pcb = a[j].pcb
             PROVE  i = j
  BY <1>1 DEF DyingOnce, a
<1>5. CASE i = 1 /\ j = 1
  BY <1>5
<1>6. CASE i = 1 /\ j # 1
  BY <1>1, <1>4, <1>6
<1>7. CASE i # 1 /\ j = 1
  BY <1>1, <1>4, <1>7
<1>8. CASE i # 1 /\ j # 1
  <2>1. i - 1 = j - 1
    BY <1>3, <1>4, <1>8
  <2> QED
    BY <1>1, <2>1
<1> QED
  BY <1>5, <1>6, <1>7, <1>8

(* The frame on top is gone, and with it the process.                      *)
LEMMA OncePop ==
  ASSUME NEW k \in Seq(Frame), k # <<>>, DyingOnce(k)
  PROVE  /\ DyingOnce(Tail(k))
         /\ Head(k).fn \in TermFn =>
              \A g \in ToSet(Tail(k)) : g.fn \in TermFn => g.pcb # Head(k).pcb
<1> DEFINE t == Tail(k)
           n == Len(k)
<1>1. /\ n \in Nat /\ n >= 1 /\ Head(k) = k[1] /\ Len(t) = n - 1 /\ t \in Seq(Frame)
      /\ \A i \in 1 .. n - 1 : t[i] = k[i + 1]
  OBVIOUS
<1>2. \A i, j \in 1 .. n :
        k[i].fn \in TermFn /\ k[j].fn \in TermFn /\ k[i].pcb = k[j].pcb => i = j
  BY DEF DyingOnce
<1>3. \A g \in ToSet(t) : \E i \in 1 .. n - 1 : g = t[i]
  BY <1>1 DEF ToSet
<1> HIDE DEF t, n
<1>4. \A i \in 1 .. n - 1 : i + 1 \in 1 .. n /\ i + 1 # 1
  BY <1>1
<1>5. DyingOnce(t)
  <2> SUFFICES ASSUME NEW i \in 1 .. n - 1, NEW j \in 1 .. n - 1,
                      t[i].fn \in TermFn, t[j].fn \in TermFn, t[i].pcb = t[j].pcb
               PROVE  i = j
    BY <1>1 DEF DyingOnce
  <2>1. i + 1 = j + 1
    BY ZenonT(40), <1>1, <1>2, <1>4
  <2> QED
    BY <1>1, <2>1
<1>6. ASSUME Head(k).fn \in TermFn, NEW g \in ToSet(t), g.fn \in TermFn, g.pcb = Head(k).pcb
      PROVE  FALSE
  <2>1. PICK i \in 1 .. n - 1 : g = t[i]
    BY <1>3
  <2>2. g = k[i + 1] /\ i + 1 \in 1 .. n /\ i + 1 # 1 /\ 1 \in 1 .. n
    BY <1>1, <1>4, <2>1
  <2> QED
    BY <1>1, <1>2, <1>6, <2>2
<1> QED
  BY <1>5, <1>6 DEF t

(* On a quiet stack there is nothing to count twice.                       *)
LEMMA OnceQuiet == ASSUME NEW k \in Seq(Frame), Quiet(k) PROVE DyingOnce(k)
<1>1. \A i \in 1 .. Len(k) : k[i] \in ToSet(k)
  BY DEF ToSet
<1> QED
  BY <1>1 DEF Quiet, DyingOnce

(* A step that neither begins nor ends a process.                          *)
LEMMA CountKept ==
  ASSUME CountInv, DyingOnce(kcall'), Dying' = Dying, Processes' = Processes,
         UNCHANGED g_process_count
  PROVE  CountInv'
  BY DEF CountInv, ProcessCountExact

(* The processes are a finite set.                                         *)
LEMMA ProcessesFinite == IsFiniteSet(Processes)
  BY PcbAssumption, FS_Subset DEF Processes, Live

(* A new process counts.                                                   *)
LEMMA CountCreate == ASSUME IInv, IoInv, CountInv, sysCreateProcess PROVE CountInv'
<1>1. PICK p \in pcbFree_h :
        pcbFree_h' = pcbFree_h \ {p} /\ p_s' = [p_s EXCEPT ![p] = NoContext]
  BY DEF sysCreateProcess, allocPcb
<1>2. kcall = <<>> /\ kcall' = <<>> /\ g_process_count' = g_process_count + 1
  BY NoKernelNoStack DEF sysCreateProcess, IoInv
<1>3. Processes' = Processes \cup {p} /\ p \notin Processes
  <2>1. p \in Pcb /\ p_s'[p].at = "user" /\ \A q \in Pcb \ {p} : p_s'[q] = p_s[q]
    BY <1>1 DEF IInv, TypeOK, NoContext
  <2> QED
    BY <1>1, <2>1 DEF Processes, Live
<1>4. Cardinality(Processes') = Cardinality(Processes) + 1
  BY <1>3, ProcessesFinite, FS_AddElement
<1>5. Dying' = {} /\ DyingOnce(kcall')
  BY <1>2, QuietStacks, QuietNobodyDies, OnceQuiet, EmptyQueue
<1> QED
  BY <1>2, <1>4, <1>5 DEF CountInv, ProcessCountExact

(* SYS2 begins with one process, which is there.                           *)
LEMMA CountTerminateCall ==
  ASSUME IInv, IoInv, TreeInv, CountInv, NEW p \in Processes, sysTerminateProcess(p)
  PROVE  CountInv'
<1>1. p \in Pcb
  BY DEF Processes, Live
<1>2. Dying' = {p} /\ kcall' = <<CallTerminateProcess(p), CallScheduler>>
      /\ UNCHANGED <<pcbFree_h, p_s, g_process_count>>
  BY <1>1, TreeTerminateCall DEF sysTerminateProcess, Syscall
<1>3. DyingOnce(kcall')
  <2> DEFINE f == CallTerminateProcess(p)
  <2>1. f \in Frame /\ CallScheduler \in Frame
    BY <1>1, FrameTypes
  <2>2. Quiet(<<CallScheduler>>) /\ <<CallScheduler>> \in Seq(Frame)
    BY <2>1, QuietStacks, SingleFrame
  <2>3. kcall' = <<f>> \o <<CallScheduler>>
    BY <1>2
  <2> HIDE DEF f
  <2> QED
    BY <2>1, <2>2, <2>3, OnceQuiet, OncePush DEF Quiet
<1> QED
  BY <1>2, <1>3 DEF CountInv, ProcessCountExact, Processes, Live

(* The same process in the next phase of its termination.                  *)
LEMMA CountTerminateProcess ==
  ASSUME IInv, TreeInv, CountInv, terminateProcess
  PROVE  CountInv'
<1> DEFINE p == Head(kcall).pcb
           f == CallTerminateChildren(p)
<1>1. TypeOK /\ Running("terminateProcess") /\ "terminateProcess" \in TermFn
  BY DEF terminateProcess, IInv, TermFn
<1>2. kcall # <<>> /\ kcall \in Seq(Frame) /\ p \in Pcb /\ Head(kcall).fn \in TermFn
  BY <1>1, DyingStack
<1>3. f \in Frame /\ f.pcb = p /\ kcall' = <<f>> \o Tail(kcall)
      /\ UNCHANGED <<pcbFree_h, p_s, g_process_count>>
  BY <1>2, FrameTypes DEF terminateProcess, procVars, CallTerminateChildren
<1> HIDE DEF f
<1>4. /\ Tail(kcall) \in Seq(Frame) /\ DyingOnce(Tail(kcall))
      /\ \A g \in ToSet(Tail(kcall)) : g.fn \in TermFn => g.pcb # f.pcb
  BY <1>2, <1>3, OncePop, PopStack DEF CountInv
<1>5. DyingOnce(kcall')
  BY <1>3, <1>4, OncePush
<1> QED
  BY <1>3, <1>5, TreeTerminateProcess, CountKept DEF Processes, Live

(* A child is on the stack once, and a process that is freed counts no     *)
(* more.                                                                   *)
LEMMA CountTerminateChildren ==
  ASSUME IInv, TreeInv, RunInv, CountInv, terminateChildren
  PROVE  CountInv'
<1> DEFINE p == Head(kcall).pcb
<1>1. /\ TypeOK /\ Running("terminateChildren") /\ "terminateChildren" \in TermFn
      /\ UNCHANGED p_s
  BY DEF terminateChildren, IInv, TermFn
<1>2. /\ kcall # <<>> /\ kcall \in Seq(Frame) /\ p \in Pcb /\ p \in Dying
      /\ Head(kcall).fn \in TermFn
  BY <1>1, DyingStack
<1>3. CASE terminateNext(p)
  <2>1. PICK c \in p_child[p] :
          /\ p_child' = [p_child EXCEPT ![p] = @ \ {c}]
          /\ kcall' = <<CallTerminateProcess(c)>> \o kcall
          /\ UNCHANGED <<pcbFree_h, p_parent, g_process_count>>
    BY <1>3 DEF terminateNext, terminateChildren
  <2>2. c \in Processes /\ c \in Pcb /\ c \notin Dying /\ Dying' = Dying \cup {c}
    <3>1. c \in Live /\ c \in Pcb /\ c \notin Dying /\ Dying' = Dying \cup {c}
      BY <1>1, <2>1, TreeTerminateNext
    <3> QED
      BY <1>2, <2>1, <3>1 DEF RunInv, IdleLoopApart, Processes
  <2> DEFINE f == CallTerminateProcess(c)
  <2>3. f \in Frame /\ f.pcb = c /\ kcall' = <<f>> \o kcall
    BY <2>1, <2>2, FrameTypes DEF CallTerminateProcess
  <2> HIDE DEF f
  <2>4. \A g \in ToSet(kcall) : g.fn \in TermFn => g.pcb # c
    BY <2>2 DEF Dying, TermFn
  <2>5. DyingOnce(kcall')
    BY <1>2, <2>3, <2>4, OncePush DEF CountInv
  <2> QED
    BY <1>1, <2>1, <2>2, <2>5 DEF CountInv, ProcessCountExact, Processes, Live
<1>4. CASE terminated(p)
  <2>1. /\ kcall' = Tail(kcall) /\ pcbFree_h' = pcbFree_h \cup {p}
        /\ g_process_count' = g_process_count - 1
    BY <1>4 DEF terminated, freePcb, Return
  <2>2. DyingOnce(kcall') /\ p \notin Dying'
    BY <1>2, <2>1, OncePop DEF CountInv, Dying, TermFn
  <2>3. Dying' \subseteq Dying
    BY <1>1, <2>1, DyingStack
  <2>4. Processes' = Processes \ {p} /\ p \in Processes
    BY <1>1, <1>2, <2>1 DEF CountInv, Processes, Live
  <2>5. Cardinality(Processes') = Cardinality(Processes) - 1
    BY <2>4, ProcessesFinite, FS_RemoveElement
  <2> QED
    BY <2>1, <2>2, <2>3, <2>4, <2>5 DEF CountInv, ProcessCountExact
<1> QED
  BY <1>3, <1>4 DEF terminateChildren

(* Every step keeps the count.                                             *)
LEMMA NextCountInv ==
  ASSUME LifeClient, IInv, IoInv, TreeInv, RunInv, CountInv, [Next]_vars, IInv'
  PROVE  CountInv'
<1>1. CASE Bystander \/ timerInIdle
  <2>1. /\ Quiet(kcall) /\ Quiet(kcall') /\ UNCHANGED g_process_count
        /\ Processes' = Processes
    <3>1. CASE Bystander
      BY <3>1, TreeUntouched, ContextsKept
    <3>2. CASE timerInIdle
      <4>1. g_current_process \notin Processes
        BY <3>2 DEF timerInIdle, RunInv, SchedulerHasNoCurrent
      <4> QED
        BY <3>2, <4>1, TimerAddsNoProcess
    <3> QED
      BY <1>1, <3>1, <3>2
  <2>2. DyingOnce(kcall')
    BY <2>1, OnceQuiet DEF IInv, TypeOK
  <2> QED
    BY <2>1, <2>2, QuietNobodyDies, CountKept
<1>2. CASE sysCreateProcess
  BY <1>2, CountCreate
<1>3. CASE SYSCALL_TERMPROCESS \/ passUpOrDie
  <2>1. cpu = "user" /\ g_current_process \in Processes
    BY <1>3, UserIsLive DEF SYSCALL_TERMPROCESS, passUpOrDie, sysTerminateProcess, Syscall
  <2>2. PICK p \in Processes : sysTerminateProcess(p)
    BY <1>3, <2>1, TerminatedIsProcess
       DEF SYSCALL_TERMPROCESS, passUpOrDie, MayTerminate, LifeClient, Live
  <2> QED
    BY <2>2, CountTerminateCall
<1>4. CASE terminateProcess
  BY <1>4, CountTerminateProcess
<1>5. CASE terminateChildren
  BY <1>5, CountTerminateChildren
<1>6. CASE (\E d \in Dev : DeviceDone(d)) \/ Stop \/ UNCHANGED vars
  <2>1. UNCHANGED <<pcbFree_h, p_s, g_process_count, kcall>>
    BY <1>6 DEF DeviceDone, Stop, vars, procVars
  <2> QED
    BY <2>1, CountKept DEF Dying, CountInv, Processes, Live
<1> QED
  BY <1>1, <1>2, <1>3, <1>4, <1>5, <1>6
     DEF Next, KernelStep, UserStep, InterruptStep, handleLocalTimer, Bystander

(* The first process is the only one.                                      *)
LEMMA InitCountInv == Init => CountInv
<1> SUFFICES ASSUME Init PROVE CountInv
  OBVIOUS
<1>1. PICK root \in Pcb :
        /\ pcbFree_h = Pcb \ {root} /\ g_process_count = 1 /\ kcall = <<CallScheduler>>
        /\ p_s = [p \in Pcb |-> NoContext]
  BY DEF Init
<1>2. Processes = {root} /\ Cardinality(Processes) = 1
  BY <1>1, FS_Singleton DEF Processes, Live, NoContext
<1>3. Quiet(kcall) /\ kcall \in Seq(Frame)
  BY <1>1, QuietStacks, FrameTypes, SingleFrame
<1> QED
  BY <1>1, <1>2, <1>3, OnceQuiet, QuietNobodyDies DEF CountInv, ProcessCountExact

(* Each process is terminated once, with clients that besides do not use   *)
(* the pids of processes that have ended.                                  *)
THEOREM CountInvariance == ASSUME LifeClient PROVE Spec => []CountInv
<1>1. IoClient
  BY DEF LifeClient
<1>2. IInv /\ IoInv /\ TreeInv /\ RunInv /\ CountInv /\ [Next]_vars /\ IInv' => CountInv'
  BY NextCountInv
<1>3. Spec => []IoInv
  BY <1>1, IoInvariance
<1>4. Spec => []TreeInv
  BY <1>1, TreeInvariance
<1> QED
  BY <1>2, <1>3, <1>4, RunInvariance, InitCountInv, Invariance, PTL DEF Spec

(* g_process_count is the number of processes at every step, also half way *)
(* through the termination of a tree.                                      *)
THEOREM CountIsExact == ASSUME LifeClient PROVE Spec => []ProcessCountExact
<1>1. CountInv => ProcessCountExact
  BY DEF CountInv
<1> QED
  BY <1>1, CountInvariance, PTL

-----------------------------------------------------------------------------
(* The count of the processes that wait for a device or the clock *)

(* A queue without duplicates is as long as its set is large.              *)
LEMMA QueueLength ==
  ASSUME NEW S, NEW q \in Seq(S), IsInjective(q)
  PROVE  Cardinality(ToSet(q)) = Len(q)
<1> DEFINE I == 1 .. Len(q)
<1>1. Len(q) \in Nat /\ DOMAIN q = I /\ q \in [I -> ToSet(q)]
  BY DEF ToSet
<1>2. IsFiniteSet(I) /\ Cardinality(I) = Len(q)
  BY <1>1, FS_Interval
<1>3. q \in Bijection(I, ToSet(q))
  BY <1>1 DEF IsInjective, Bijection, Injection, Surjection, ToSet
<1>4. ExistsBijection(I, ToSet(q))
  BY <1>3 DEF ExistsBijection
<1> QED
  BY <1>2, <1>4, FS_Bijection

(* The stacks of a process that is just about to wait.                     *)
AboutToWait(k) ==
  k = <<CallPasseren(g_pseudo_clock)>> \/ \E d \in Dev : k = <<CallPasseren(sync(d))>>

(* The processes counted, in two parts, are finitely many.                 *)
LEMMA CountedParts ==
  /\ Counted = {p \in SoftBlocked : \A d \in Dev : Signalling(d) => p # waiting_process[d]}
                 \cup {p \in {g_current_process} : AboutToWait(kcall)}
  /\ IsFiniteSet(Counted)
<1>1. Counted = {p \in SoftBlocked : \A d \in Dev : Signalling(d) => p # waiting_process[d]}
                  \cup {p \in {g_current_process} : AboutToWait(kcall)}
  BY DEF Counted, AboutToWait, Commanded
<1>2. Counted \in SUBSET (Pcb \cup {g_current_process})
  BY <1>1 DEF SoftBlocked
<1>3. IsFiniteSet(Pcb \cup {g_current_process})
  BY PcbAssumption, FS_AddElement
<1> QED
  BY <1>1, <1>2, <1>3, FS_Subset

(* Fewer processes wait, and the count is the same.                        *)
LEMMA SoftKept ==
  ASSUME TypeOK, SoftInv, Counted' \subseteq Counted, UNCHANGED g_soft_block_count
  PROVE  SoftInv'
<1>1. Cardinality(Counted') <= Cardinality(Counted) /\ IsFiniteSet(Counted')
  BY CountedParts, FS_Subset
<1>2. Cardinality(Counted') \in Nat /\ Cardinality(Counted) \in Nat
  BY <1>1, CountedParts, FS_CardinalityType
<1> QED
  BY <1>1, <1>2 DEF SoftInv, TypeOK

(* The count stays when no more processes are blocked on devices.          *)
LEMMA SoftShrinks ==
  ASSUME TypeOK, SoftInv, SoftBlocked' \subseteq SoftBlocked, ~ AboutToWait(kcall'),
         \A d \in Dev : Signalling(d) => waiting_process[d] \notin SoftBlocked',
         UNCHANGED g_soft_block_count
  PROVE  SoftInv'
<1>1. Counted' \subseteq SoftBlocked'
  BY CountedParts DEF Counted, AboutToWait, Commanded
<1>2. SoftBlocked' \subseteq Counted
  BY CountedParts
<1> QED
  BY <1>1, <1>2, SoftKept

(* One process more is about to wait, and is counted.                      *)
LEMMA SoftGrows ==
  ASSUME TypeOK, SoftInv, \A d \in Dev : ~ Signalling(d), SoftBlocked' \subseteq SoftBlocked,
         UNCHANGED g_current_process, g_soft_block_count' = g_soft_block_count + 1
  PROVE  SoftInv'
<1> DEFINE C == Counted
           D == Counted \cup {g_current_process}
<1>1. Counted' \subseteq D
  BY CountedParts DEF Counted, AboutToWait, Commanded
<1>2. IsFiniteSet(D) /\ Cardinality(D) <= Cardinality(C) + 1 /\ Cardinality(C) \in Nat
  BY SMTT(30), CountedParts, FS_AddElement, FS_CardinalityType
<1>3. Cardinality(Counted') <= Cardinality(D) /\ IsFiniteSet(Counted')
  BY <1>1, <1>2, FS_Subset
<1>4. Cardinality(Counted') \in Nat /\ Cardinality(D) \in Nat
  BY <1>2, <1>3, FS_CardinalityType
<1> QED
  BY <1>2, <1>3, <1>4 DEF SoftInv, TypeOK

(* The processes of W do not wait any more, and are not counted any more.  *)
LEMMA SoftFalls ==
  ASSUME TypeOK, SoftInv, NEW W \in SUBSET Counted, Counted' \subseteq Counted \ W,
         g_soft_block_count' = g_soft_block_count - Cardinality(W)
  PROVE  SoftInv'
<1>1. IsFiniteSet(W) /\ Counted \cap W = W
  BY CountedParts, FS_Subset
<1>2. /\ IsFiniteSet(Counted \ W)
      /\ Cardinality(Counted \ W) = Cardinality(Counted) - Cardinality(W)
  BY <1>1, CountedParts, FS_Difference
<1>3. Cardinality(Counted') <= Cardinality(Counted \ W) /\ IsFiniteSet(Counted')
  BY <1>2, FS_Subset
<1>4. /\ Cardinality(Counted') \in Nat /\ Cardinality(Counted) \in Nat
      /\ Cardinality(W) \in Nat /\ Cardinality(Counted \ W) \in Nat
  BY <1>1, <1>2, <1>3, CountedParts, FS_CardinalityType
<1> QED
  BY <1>2, <1>3, <1>4 DEF SoftInv, TypeOK

(* The stacks on which nobody is about to wait, or to be woken.            *)
LEMMA NobodyWaits ==
  ASSUME NEW k
  PROVE  /\ k = <<>> => ~ AboutToWait(k)
         /\ k # <<>> /\ Head(k).fn # "sysPasseren" => ~ AboutToWait(k)
<1>1. \A s : <<CallPasseren(s)>> # <<>> /\ Head(<<CallPasseren(s)>>).fn = "sysPasseren"
  BY ShortTails, FrameNames
<1> QED
  BY <1>1 DEF AboutToWait

(* Without a V in progress no device is signalled.                         *)
LEMMA NobodySignals ==
  ASSUME kcall = <<>> \/ Head(kcall).fn # "sysVerhogen"
  PROVE  \A d \in Dev : ~ Signalling(d)
  BY ShortTails, FrameNames DEF Signalling

(* P and V: who waits now was about to.                                    *)
LEMMA SoftSemaphore == ASSUME IInv, IoInv, SoftInv, sysPasseren \/ sysVerhogen PROVE SoftInv'
<1> DEFINE s == Head(kcall).sem
           t == Tail(kcall)
<1>1. PICK fn \in {"sysPasseren", "sysVerhogen"} : Running(fn)
  BY DEF sysPasseren, sysVerhogen
<1>2. /\ TypeOK /\ Queues /\ Head(kcall) \in Frame /\ Head(kcall).fn = fn /\ cpu = "kernel"
      /\ s \in SemAddr
  BY <1>1, RunningFrame, InvariantQueues, FrameArguments
<1>3. UNCHANGED <<waiting_process, g_soft_block_count>>
  BY DEF sysPasseren, sysVerhogen, ioVars
<1>4. ~ AboutToWait(t)
  BY AfterSemaphore, NobodyWaits
<1>5. ASSUME NEW d \in Dev, Signalling(d)
      PROVE  /\ s = sync(d) /\ s_procq[s] = <<waiting_process[d]>>
             /\ sysVerhogen /\ s_procq[s] # <<>> /\ Wake(s)
  <2>1. Head(kcall) = CallVerhogen(sync(d))
    BY <1>5, ShortTails DEF Signalling
  <2>2. s = sync(d) /\ fn = "sysVerhogen" /\ sysVerhogen
    BY <1>2, <2>1 DEF CallVerhogen, sysPasseren, Running
  <2>3. IoStack(kcall, d, g_current_process)
    BY <1>5 DEF Signalling, IoStack
  <2>4. ~ Commanded(d) /\ ~ Releasing(d)
    BY <1>5, <2>3, IoStacksDistinct DEF Commanded, Releasing, Signalling
  <2>5. semaphore[sync(d)] = 0 /\ DeviceUsed(d)
    BY <1>5 DEF IoInv, DevicesInPhase, DeviceFree
  <2>6. s_procq[s] = <<waiting_process[d]>>
    BY <2>2, <2>4, <2>5 DEF DeviceUsed
  <2>7. s_procq[s] # <<>>
    BY <2>6
  <2> QED
    BY <2>2, <2>5, <2>6, <2>7 DEF sysVerhogen
<1>6. CASE s_procq[s] # <<>> /\ Wake(s)
  <2> DEFINE h == Head(s_procq[s])
  <2>1. h \in Pcb /\ kcall' = t /\ p_semAdd' = [p_semAdd EXCEPT ![h] = NULL]
    BY <1>2, <1>6, TailQueue DEF Wake, removeBlocked, Return, TypeOK
  <2> HIDE DEF h
  <2>2. SoftBlocked' = SoftBlocked \ {h}
    BY <1>2, <2>1 DEF SoftBlocked, TypeOK
  <2>3. \A d \in Dev : Signalling(d) => waiting_process[d] = h
    BY <1>5, ShortTails DEF h
  <2> HIDE DEF t
  <2> QED
    BY <1>2, <1>3, <1>4, <2>1, <2>2, <2>3, SoftShrinks
<1>7. CASE \E delta \in Int : s_procq[s] = <<>> /\ Count(s, delta)
  <2>1. kcall' = t /\ SoftBlocked' = SoftBlocked
    BY <1>7 DEF Count, Return, queueVars, SoftBlocked
  <2>2. \A d \in Dev : ~ Signalling(d)
    BY <1>5, <1>7
  <2> HIDE DEF t
  <2> QED
    BY <1>2, <1>3, <1>4, <2>1, <2>2, SoftShrinks
<1>8. CASE Block(s)
  <2>1. SyscallStack
    BY <1>8, OnlySyscallsBlock
  <2>2. g_current_process \in Live /\ g_current_process \in Pcb /\ g_current_process # NULL
    BY <1>2, <2>1, SyscallCurrent
  <2>3. /\ p_semAdd' = [p_semAdd EXCEPT ![g_current_process] = s]
        /\ kcall' = <<CallScheduler>>
    BY <1>2, <1>8, <2>2, BlockCurrent
  <2>4. ~ AboutToWait(kcall')
    BY <2>3, NobodyWaits, ShortTails, FrameNames
  <2>5. SoftBlocked' \subseteq SoftBlocked \cup {g_current_process}
        /\ (g_current_process \in SoftBlocked' => s[1] \in {"sync", "clock"})
    BY <1>2, <2>2, <2>3 DEF SoftBlocked, TypeOK
  <2>6. s[1] \in {"sync", "clock"} => AboutToWait(kcall)
    <3>1. CASE \E u \in UserSem : kcall = <<CallPasseren(u)>> \/ kcall = <<CallVerhogen(u)>>
      <4>1. PICK u \in UserSem : kcall = <<CallPasseren(u)>> \/ kcall = <<CallVerhogen(u)>>
        BY <3>1
      <4>2. s = u
        BY <4>1, ShortTails DEF CallPasseren, CallVerhogen
      <4> QED
        BY <4>2, AddressesDistinct
    <3>2. CASE \E d \in Dev : Asked(d)
      <4>1. PICK d \in Dev : Asked(d)
        BY <3>2
      <4>2. s = mut(d)
        BY <4>1, ShortTails DEF Asked, CallPasseren
      <4> QED
        BY <4>2, AddressesDistinct
    <3>3. \A d \in Dev : ~ Claimed(d)
      BY <1>2, ShortTails, FrameNames DEF Claimed
    <3> QED
      BY <2>1, <3>1, <3>2, <3>3 DEF SyscallStack, AboutToWait, Commanded
  <2>7. \A d \in Dev : ~ Signalling(d)
    <3> SUFFICES ASSUME NEW d \in Dev, Signalling(d) PROVE FALSE
      OBVIOUS
    <3>1. kcall' = t
      BY <1>5 DEF Wake, Return
    <3>2. t = <<CallReleaseDevice(d)>>
      BY ShortTails DEF Signalling
    <3>3. CallReleaseDevice(d) # CallScheduler
      BY FrameNames
    <3>4. <<CallReleaseDevice(d)>> # <<CallScheduler>>
      BY <3>3, ShortTails
    <3> HIDE DEF t
    <3> QED
      BY <2>3, <3>1, <3>2, <3>4
  <2>8. Counted' \subseteq Counted
    <3>1. Counted' \subseteq SoftBlocked'
      BY <2>4, CountedParts DEF Counted, AboutToWait, Commanded
    <3>2. SoftBlocked' \subseteq Counted
      BY <2>5, <2>6, <2>7, CountedParts
    <3> QED
      BY <3>1, <3>2
  <2> QED
    BY <1>2, <1>3, <2>8, SoftKept
<1>9. \/ s_procq[s] # <<>> /\ Wake(s)
      \/ \E delta \in Int : s_procq[s] = <<>> /\ Count(s, delta)
      \/ Block(s)
  <2>1. Count(s, -1) \/ Count(s, 1) => \E delta \in Int : Count(s, delta)
    OBVIOUS
  <2> QED
    BY <2>1 DEF sysPasseren, sysVerhogen
<1> QED
  BY <1>6, <1>7, <1>8, <1>9

(* beginIO counts the process that is about to wait.                       *)
LEMMA SoftIo == ASSUME IInv, IoInv, SoftInv, beginIO \/ releaseDevice PROVE SoftInv'
<1>1. TypeOK /\ (Running("beginIO") \/ Running("releaseDevice"))
  BY DEF IInv, beginIO, releaseDevice
<1>2. \A d \in Dev : ~ Signalling(d)
  BY <1>1, NobodySignals DEF Running
<1>3. CASE beginIO
  <2>1. UNCHANGED <<p_semAdd, g_current_process>> /\ g_soft_block_count' = g_soft_block_count + 1
    BY <1>3 DEF beginIO, queueVars
  <2>2. SoftBlocked' = SoftBlocked
    BY <2>1 DEF SoftBlocked
  <2> QED
    BY <1>2, <2>1, <2>2, SoftGrows DEF IInv
<1>4. CASE releaseDevice
  <2>1. PICK d \in Dev : Releasing(d)
    BY <1>4, RunningStack DEF releaseDevice, IInv, IoInv
  <2>2. Head(kcall).dev = d /\ Tail(kcall) = <<>> /\ s_procq[mut(d)] = <<>>
    BY <2>1, ShortTails DEF Releasing, CallReleaseDevice, IoInv, DevicesInPhase
  <2>3. leaveDevice(d)
    BY <1>4, <2>2 DEF releaseDevice, passTheBaton
  <2>4. kcall' = <<>> /\ UNCHANGED <<p_semAdd, g_soft_block_count>>
    BY <1>4, <2>2, <2>3 DEF releaseDevice, leaveDevice, Return
  <2>5. SoftBlocked' = SoftBlocked
    BY <2>4 DEF SoftBlocked
  <2> QED
    BY <1>2, <2>4, <2>5, NobodyWaits, SoftShrinks DEF IInv
<1> QED
  BY <1>3, <1>4

(* A termination reaches no process in I/O; that of one in clock wait      *)
(* leaves the count too high.                                              *)
LEMMA SoftTermination ==
  ASSUME IInv, IoInv, SoftInv, terminateProcess \/ terminateChildren
  PROVE  SoftInv'
<1>1. PICK fn \in TermFn : Running(fn)
  BY DEF terminateProcess, terminateChildren, TermFn
<1>2. /\ TypeOK /\ kcall # <<>> /\ kcall \in Seq(Frame) /\ Head(kcall).fn \in TermFn
      /\ Head(kcall).pcb \in Pcb /\ TerminationStack(kcall)
      /\ \A d \in Dev : p_semAdd[Head(kcall).pcb] \notin {mut(d), sync(d)}
  BY <1>1, TerminatedIsNoWaiter DEF IInv
<1>3. \A d \in Dev : ~ Signalling(d)
  BY <1>2, NobodySignals DEF TermFn
<1>4. CASE terminateProcess
  <2> DEFINE p == Head(kcall).pcb
             f == CallTerminateChildren(p)
             t == Tail(kcall)
  <2>1. /\ f \in Frame /\ f.fn = "terminateChildren" /\ t \in Seq(Frame)
        /\ kcall' = <<f>> \o t
    BY <1>2, <1>4, FrameTypes, FrameNames, PopStack DEF terminateProcess
  <2> HIDE DEF f, t
  <2>2. ~ AboutToWait(kcall')
    <3>1. <<f>> \o t # <<>> /\ Head(<<f>> \o t) = f
      BY <2>1, PushStack
    <3> QED
      BY <2>1, <3>1, NobodyWaits
  <2>3. UNCHANGED g_soft_block_count
    <3>1. p_semAdd[p] # NULL => p_semAdd[p] \in SemAddr
      BY <1>2 DEF TypeOK
    <3>2. p_semAdd[p] # NULL => ~ isDeviceSemaphore(p_semAdd[p])
      BY <1>2, <3>1, AddressesDistinct DEF isDeviceSemaphore
    <3> QED
      BY <1>4, <3>2 DEF terminateProcess
  <2>4. SoftBlocked' \subseteq SoftBlocked
    BY <1>2, <1>4 DEF terminateProcess, outBlocked, SoftBlocked, TypeOK
  <2> QED
    BY <1>2, <1>3, <2>2, <2>3, <2>4, SoftShrinks
<1>5. CASE terminateChildren
  <2> DEFINE p == Head(kcall).pcb
  <2>1. UNCHANGED <<p_semAdd, g_soft_block_count>>
    BY <1>5 DEF terminateChildren
  <2>2. SoftBlocked' = SoftBlocked
    BY <2>1 DEF SoftBlocked
  <2>3. CASE terminateNext(p)
    <3>1. PICK c \in p_child[p] : kcall' = <<CallTerminateProcess(c)>> \o kcall
      BY <2>3 DEF terminateNext
    <3>2. c \in Pcb
      BY <1>2, <3>1 DEF TypeOK
    <3> DEFINE f == CallTerminateProcess(c)
    <3>3. f \in Frame /\ f.fn = "terminateProcess" /\ kcall' = <<f>> \o kcall
      BY <3>1, <3>2, FrameTypes, FrameNames
    <3> HIDE DEF f
    <3>4. ~ AboutToWait(kcall')
      <4>1. <<f>> \o kcall # <<>> /\ Head(<<f>> \o kcall) = f
        BY <1>2, <3>3, PushStack
      <4> QED
        BY <3>3, <4>1, NobodyWaits
    <3> QED
      BY <1>2, <1>3, <2>1, <2>2, <3>4, SoftShrinks
  <2>4. CASE terminated(p)
    <3> DEFINE t == Tail(kcall)
    <3>1. kcall' = t
      BY <2>4 DEF terminated, Return
    <3>2. TerminationStack(t) /\ t \in Seq(Frame)
      BY <1>2, TerminationTop, PopStack
    <3> HIDE DEF t
    <3>3. t # <<>> /\ Head(t).fn # "sysPasseren"
      BY <3>2, TerminationTop DEF TerminationStack, TermFn
    <3>4. ~ AboutToWait(kcall')
      BY <3>1, <3>3, NobodyWaits
    <3> QED
      BY <1>2, <1>3, <2>1, <2>2, <3>4, SoftShrinks
  <2> QED
    BY <1>5, <2>3, <2>4 DEF terminateChildren
<1> QED
  BY <1>4, <1>5

(* The scheduler does not touch the count.                                 *)
LEMMA SoftScheduler ==
  ASSUME IInv, IoInv, SoftInv, dispatch \/ idle \/ recheck \/ WAIT \/ wakeUp \/ LDST
  PROVE  SoftInv'
<1>1. kcall' = <<>> \/ kcall' = <<CallScheduler>>
  <2>1. cpu # "kernel" => kcall = <<>>
    BY NoKernelNoStack DEF IoInv
  <2> QED
    BY <2>1 DEF dispatch, idle, recheck, WAIT, wakeUp, LDST
<1>2. kcall = <<>> \/ Running("scheduler")
  BY NoKernelNoStack DEF dispatch, idle, recheck, WAIT, wakeUp, LDST, IoInv
<1>3. UNCHANGED <<p_semAdd, g_soft_block_count>>
  BY DEF dispatch, idle, recheck, WAIT, wakeUp, LDST, schedUnchanged
<1>4. SoftBlocked' = SoftBlocked
  BY <1>3 DEF SoftBlocked
<1>5. ~ AboutToWait(kcall')
  BY <1>1, NobodyWaits, ShortTails, FrameNames
<1>6. \A d \in Dev : ~ Signalling(d)
  BY <1>2, NobodySignals DEF Running
<1> QED
  BY <1>3, <1>4, <1>5, <1>6, SoftShrinks DEF IInv

(* Of the system calls only CLOCKWAIT counts.                              *)
LEMMA SoftUser == ASSUME IInv, IoInv, SoftInv, UserStep PROVE SoftInv'
<1>1. cpu = "user"
  BY DEF UserStep, sysCreateProcess, SYSCALL_TERMPROCESS, passUpOrDie, sysTerminateProcess,
     SYSCALL_PASSEREN, SYSCALL_VERHOGEN, sysDoIO, sysDoIOPanic, sysClockWait, Syscall
<1>2. TypeOK /\ kcall = <<>> /\ \A d \in Dev : ~ Signalling(d)
  BY <1>1, NoKernelNoStack, NobodySignals DEF IoInv, IInv
<1>3. CASE sysClockWait
  <2>1. UNCHANGED <<p_semAdd, g_current_process>> /\ g_soft_block_count' = g_soft_block_count + 1
    BY <1>3 DEF sysClockWait, Syscall, queueVars
  <2>2. SoftBlocked' = SoftBlocked
    BY <2>1 DEF SoftBlocked
  <2> QED
    BY <1>2, <2>1, <2>2, SoftGrows
<1>4. CASE sysCreateProcess
  <2>1. PICK p \in pcbFree_h : p_semAdd' = [p_semAdd EXCEPT ![p] = NULL]
    BY <1>4 DEF sysCreateProcess, allocPcb
  <2>2. SoftBlocked' \subseteq SoftBlocked
    BY <1>2, <2>1 DEF SoftBlocked, TypeOK
  <2>3. kcall' = <<>> /\ UNCHANGED g_soft_block_count
    BY <1>2, <1>4 DEF sysCreateProcess
  <2> QED
    BY <1>2, <2>2, <2>3, NobodyWaits, SoftShrinks
<1>5. ASSUME UNCHANGED <<p_semAdd, g_soft_block_count>>, ~ AboutToWait(kcall')
      PROVE  SoftInv'
  <2>1. SoftBlocked' = SoftBlocked
    BY <1>5 DEF SoftBlocked
  <2> QED
    BY <1>2, <1>5, <2>1, SoftShrinks
<1>6. ASSUME NEW p, sysTerminateProcess(p)
      PROVE  SoftInv'
  <2>1. UNCHANGED <<p_semAdd, g_soft_block_count>> /\ kcall' = <<CallTerminateProcess(p), CallScheduler>>
    BY <1>6 DEF sysTerminateProcess, Syscall, queueVars
  <2> QED
    BY <1>5, <2>1, NobodyWaits, ShortTails, FrameNames
<1>7. CASE SYSCALL_VERHOGEN
  <2>1. PICK s \in UserSem : kcall' = <<CallVerhogen(s)>>
    BY <1>7 DEF SYSCALL_VERHOGEN, Syscall, UserSem
  <2> QED
    BY <1>5, <1>7, <2>1, NobodyWaits, ShortTails, FrameNames DEF SYSCALL_VERHOGEN, Syscall, queueVars
<1>8. CASE SYSCALL_PASSEREN
  <2>1. PICK s \in UserSem : kcall' = <<CallPasseren(s)>>
    BY <1>8 DEF SYSCALL_PASSEREN, Syscall, UserSem
  <2>2. \A u : <<CallPasseren(s)>> = <<CallPasseren(u)>> => s = u
    BY ShortTails DEF CallPasseren
  <2>3. ~ AboutToWait(kcall')
    BY <2>1, <2>2, AddressesDistinct DEF AboutToWait
  <2> QED
    BY <1>5, <1>8, <2>3 DEF SYSCALL_PASSEREN, Syscall, queueVars
<1>9. CASE sysDoIO
  <2>1. PICK d \in Dev : kcall' = <<CallPasseren(mut(d)), CallBeginIO(d, g_current_process)>>
    BY <1>9 DEF sysDoIO, Syscall
  <2>2. ~ AboutToWait(kcall')
    BY <2>1, ShortTails DEF AboutToWait
  <2> QED
    BY <1>5, <1>9, <2>2 DEF sysDoIO, Syscall, queueVars
<1>10. CASE sysDoIOPanic
  BY <1>2, <1>5, <1>10, NobodyWaits DEF sysDoIOPanic, queueVars
<1> QED
  BY <1>3, <1>4, <1>6, <1>7, <1>8, <1>9, <1>10 DEF UserStep, SYSCALL_TERMPROCESS, passUpOrDie

(* A tick and the interrupt of a device count off those that they wake.    *)
LEMMA SoftInterrupt == ASSUME IInv, IoInv, SoftInv, InterruptStep PROVE SoftInv'
<1>1. ASSUME cpu \in Interruptible
      PROVE  /\ TypeOK /\ Queues /\ kcall = <<>> /\ (\A d \in Dev : ~ Signalling(d))
             /\ ~ AboutToWait(kcall) /\ NoIoStack /\ Counted = SoftBlocked
  <2>1. /\ TypeOK /\ Queues /\ kcall = <<>> /\ (\A d \in Dev : ~ Signalling(d))
        /\ ~ AboutToWait(kcall) /\ NoIoStack
    BY <1>1, NoKernelNoStack, NobodySignals, NobodyWaits, ContextTypes, InvariantQueues DEF IoInv
  <2> QED
    BY <2>1, CountedParts
<1>2. CASE handleLocalTimer
  <2>1. /\ TypeOK /\ kcall' \in {<<>>, <<CallScheduler>>}
        /\ UNCHANGED <<p_semAdd, g_soft_block_count>>
    BY <1>2 DEF handleLocalTimer, timerInUser, timerInIdle, timerWithoutCurrent, timerRevives,
       schedUnchanged, IInv
  <2>2. SoftBlocked' = SoftBlocked
    BY <2>1 DEF SoftBlocked
  <2>3. \A d \in Dev : ~ Signalling(d)
    <3>1. CASE timerInUser
      BY <1>1, <3>1 DEF timerInUser, Interruptible
    <3>2. CASE timerInIdle
      BY <3>2, NobodySignals DEF timerInIdle, Running
    <3> QED
      BY <1>2, <3>1, <3>2 DEF handleLocalTimer
  <2>4. ~ AboutToWait(kcall')
    BY <2>1, NobodyWaits, ShortTails, FrameNames
  <2> QED
    BY <2>1, <2>2, <2>3, <2>4, SoftShrinks
<1>3. CASE handleSysTimer
  <2> DEFINE q == s_procq[g_pseudo_clock]
  <2>0. /\ TypeOK /\ Queues /\ kcall = <<>> /\ (\A d \in Dev : ~ Signalling(d))
        /\ Counted = SoftBlocked
    BY <1>1, <1>3 DEF handleSysTimer
  <2>1. /\ p_semAdd' = [p \in Pcb |-> IF p \in ToSet(q) THEN NULL ELSE p_semAdd[p]]
        /\ g_soft_block_count' = g_soft_block_count - Len(q) /\ kcall' = <<>>
    BY <2>0, <1>3 DEF handleSysTimer
  <2>2. q \in Seq(Pcb) /\ IsInjective(q) /\ g_pseudo_clock \in SemAddr
    BY <2>0, SemAddrTypes DEF TypeOK, Queues
  <2>3. \A p \in ToSet(q) : p \in Pcb /\ p_semAdd[p] = g_pseudo_clock
    BY <2>0, <2>2, QueuedIsBlocked
  <2>4. Len(q) = Cardinality(ToSet(q))
    BY <2>2, QueueLength
  <2> HIDE DEF q
  <2>5. ToSet(q) \subseteq SoftBlocked
    BY <2>2, <2>3, NullAssumption, AddressesDistinct DEF SoftBlocked
  <2>6. SoftBlocked' = SoftBlocked \ ToSet(q)
    BY <2>1 DEF SoftBlocked
  <2>7. Counted' \subseteq SoftBlocked'
    BY <2>1, CountedParts, NobodyWaits DEF Counted, AboutToWait, Commanded
  <2> QED
    BY <2>0, <2>1, <2>4, <2>5, <2>6, <2>7, SoftFalls
<1>4. ASSUME NEW d \in Dev, handleDeviceInt(d)
      PROVE  SoftInv'
  <2> DEFINE w == waiting_process[d]
  <2>0. /\ TypeOK /\ NoIoStack /\ Counted = SoftBlocked
    BY <1>1, <1>4 DEF handleDeviceInt
  <2>1. ~ Commanded(d) /\ ~ Releasing(d) /\ device[d] \in {"ok", "err"}
    BY <2>0, <1>4, NoIoPhases DEF handleDeviceInt
  <2>2. DeviceUsed(d) /\ semaphore[sync(d)] = 0
    BY <2>1 DEF IoInv, DevicesInPhase, DeviceFree
  <2>3. w # NULL
    BY <2>2 DEF DeviceUsed
  <2>4. w \in Pcb /\ p_semAdd[w] = sync(d)
    BY <2>1, <2>3, IoWaiter DEF IoInv
  <2>5. /\ kcall' = <<CallVerhogen(sync(d)), CallReleaseDevice(d)>>
        /\ g_soft_block_count' = g_soft_block_count - 1
        /\ UNCHANGED <<p_semAdd, waiting_process>>
    BY <2>2, <2>3, <1>4 DEF handleDeviceInt, endIO, queueVars
  <2>6. {w} \in SUBSET Counted /\ Cardinality({w}) = 1
    <3>1. sync(d) # NULL /\ sync(d)[1] = "sync"
      BY SemAddrTypes, NullAssumption, AddressesDistinct
    <3>2. w \in SoftBlocked
      BY <2>4, <3>1 DEF SoftBlocked
    <3> QED
      BY <2>0, <3>2, FS_Singleton
  <2>7. Signalling(d)'
    BY <2>5 DEF Signalling
  <2>8. ~ AboutToWait(kcall')
    BY <2>5, NobodyWaits, ShortTails, FrameNames
  <2>9. Counted' \subseteq SoftBlocked \ {w}
    <3>1. SoftBlocked' = SoftBlocked
      BY <2>5 DEF SoftBlocked
    <3>2. Counted' = {p \in SoftBlocked' : \A e \in Dev : Signalling(e)' => p # waiting_process'[e]}
      BY <2>8, CountedParts DEF Counted, AboutToWait, Commanded
    <3> QED
      BY <2>5, <2>7, <3>1, <3>2
  <2> QED
    BY <2>0, <2>5, <2>6, <2>9, SoftFalls
<1> QED
  BY <1>2, <1>3, <1>4 DEF InterruptStep

(* Every step keeps the soft-block count.                                  *)
LEMMA NextSoftInv == ASSUME IInv, IoInv, SoftInv, [Next]_vars PROVE SoftInv'
<1>1. CASE KernelStep
  BY <1>1, SoftSemaphore, SoftIo, SoftTermination, SoftScheduler DEF KernelStep
<1>2. CASE (\E d \in Dev : DeviceDone(d)) \/ Stop \/ UNCHANGED vars
  <2>1. UNCHANGED <<p_semAdd, waiting_process, g_soft_block_count, g_current_process, kcall>>
    BY <1>2 DEF DeviceDone, Stop, vars, queueVars, ioVars
  <2> QED
    BY <2>1 DEF SoftInv, Counted, SoftBlocked, Signalling, Commanded
<1> QED
  BY <1>1, <1>2, SoftUser, SoftInterrupt DEF Next

(* It holds at the start.                                                  *)
LEMMA InitSoftInv == Init => SoftInv
<1> SUFFICES ASSUME Init PROVE SoftInv
  OBVIOUS
<1>1. p_semAdd = [p \in Pcb |-> NULL] /\ kcall = <<CallScheduler>> /\ g_soft_block_count = 0
  BY DEF Init
<1>2. SoftBlocked = {} /\ ~ AboutToWait(kcall)
  BY <1>1, NobodyWaits, ShortTails, FrameNames DEF SoftBlocked
<1>3. Counted = {}
  BY <1>2, CountedParts
<1> QED
  BY <1>1, <1>3, FS_EmptySet DEF SoftInv

(* The scheduler's count is never too low: it counts every process that    *)
(* waits for a device or the clock, or is about to.  A count that is too   *)
(* low would make it PANIC while an interrupt can still wake someone.      *)
THEOREM SoftCountSuffices == ASSUME IoClient PROVE Spec => []SoftInv
<1>1. IInv /\ IoInv /\ SoftInv /\ [Next]_vars => SoftInv'
  BY NextSoftInv
<1> QED
  BY <1>1, InitSoftInv, Invariance, IoInvariance, PTL DEF Spec

-----------------------------------------------------------------------------
(* Where the machine stops *)

(* The scheduler finds nothing ready: every process is blocked, and the    *)
(* two counts tell what it can wait for.                                   *)
LEMMA IdleStops ==
  ASSUME IInv, IoInv, CountInv, RunInv, SoftInv, idle
  PROVE  StopsOnlyWhenStuck'
<1>1. /\ TypeOK /\ Running("scheduler") /\ g_ready_queue = <<>>
      /\ cpu' = CASE g_process_count = 0 -> "halt"
                  [] g_process_count > 0 /\ g_soft_block_count > 0 -> "enabled"
                  [] g_process_count > 0 /\ g_soft_block_count = 0 -> "panic"
                  [] OTHER -> "spin"
      /\ UNCHANGED <<pcbFree_h, p_semAdd, p_s>>
  BY DEF idle, schedUnchanged, procVars, IInv
<1>2. Dying = {} /\ Ready = {}
  BY <1>1, TreeUntouched, QuietNobodyDies, EmptyQueue DEF Ready, Bystander
<1>3. Processes \subseteq Blocked /\ Processes \subseteq Pcb /\ Processes' = Processes
  BY <1>1, <1>2 DEF RunInv, SchedulerHasNoCurrent, NoProcessLost, Processes, Live
<1>4. g_process_count = Cardinality(Processes) /\ Cardinality(Processes) \in Nat
  BY ProcessesFinite, FS_CardinalityType DEF CountInv, ProcessCountExact
<1>5. \A d \in Dev : ~ Signalling(d)
  BY <1>1, NobodySignals DEF Running
<1>6. Cardinality(Counted) \in Nat /\ g_soft_block_count \in Int
      /\ Cardinality(Counted) <= g_soft_block_count
  BY <1>1, CountedParts, FS_CardinalityType DEF SoftInv, TypeOK
<1>7. CASE g_process_count = 0
  <2>1. Processes = {}
    BY <1>4, <1>7, ProcessesFinite, FS_EmptySet
  <2> QED
    BY <1>1, <1>3, <1>7, <2>1 DEF StopsOnlyWhenStuck
<1>8. CASE g_process_count > 0 /\ g_soft_block_count > 0
  <2>1. cpu' = "enabled"
    BY <1>1, <1>4, <1>8
  <2> QED
    BY <2>1 DEF StopsOnlyWhenStuck, Stopped
<1>9. CASE g_process_count > 0 /\ g_soft_block_count = 0
  <2>1. cpu' = "panic"
    BY <1>1, <1>4, <1>9
  <2>2. Counted = {}
    BY <1>6, <1>9, CountedParts, FS_EmptySet
  <2>3. SoftBlocked = {}
    BY <1>5, <2>2, CountedParts
  <2>4. ASSUME NEW p \in Processes
        PROVE  p_semAdd[p] \in UserSem
    <3>1. p \in Pcb /\ p_semAdd[p] \in SemAddr /\ p_semAdd[p] # NULL
      BY <1>1, <1>3, <2>4 DEF Blocked, TypeOK
    <3>2. p_semAdd[p][1] \notin {"sync", "clock"}
      BY <2>3, <3>1 DEF SoftBlocked
    <3>3. \A d \in Dev : p_semAdd[p] \notin {mut(d), sync(d)}
      BY <3>1, <3>2, BlockedOnDevice, AddressesDistinct DEF IoInv
    <3> QED
      BY <3>1, <3>2, <3>3, AddressesDistinct
  <2> QED
    BY <1>1, <1>3, <2>1, <2>4 DEF StopsOnlyWhenStuck, UserSem
<1> QED
  BY <1>4, <1>6, <1>7, <1>8, <1>9 DEF TypeOK

(* Nothing else stops the machine: the kernel never blocks or signals a    *)
(* process that is not there.                                              *)
LEMMA NextStops ==
  ASSUME Client = {}, IInv, IoInv, CountInv, RunInv, SoftInv, StopsOnlyWhenStuck, [Next]_vars
  PROVE  StopsOnlyWhenStuck'
<1>1. TypeOK
  BY DEF IInv
<1>2. ASSUME cpu' \notin Stopped PROVE StopsOnlyWhenStuck'
  BY <1>2 DEF StopsOnlyWhenStuck
<1>3. "kernel" \notin Stopped /\ \A a \in Interruptible : a \notin Stopped /\ Resume(a) \notin Stopped
  BY DEF Stopped, Interruptible, IdlePoint, Resume
<1>4. CASE sysPasseren \/ sysVerhogen
  <2>1. PICK fn \in {"sysPasseren", "sysVerhogen"} : Running(fn)
    BY <1>4 DEF sysPasseren, sysVerhogen
  <2>2. /\ cpu = "kernel" /\ Head(kcall).sem \in SemAddr
        /\ Head(kcall).fn \in {"sysPasseren", "sysVerhogen"}
    BY <1>1, <2>1, RunningFrame, FrameArguments
  <2>3. CASE Block(Head(kcall).sem)
    <3>1. SyscallStack
      BY <1>4, <2>3, OnlySyscallsBlock
    <3>2. g_current_process \in Live
      BY <2>2, <3>1, SyscallCurrent
    <3>3. cpu' = cpu
      BY <2>2, <2>3, <3>2, BlockCurrent
    <3> QED
      BY <1>2, <1>3, <2>2, <3>3
  <2>4. CASE ~ Block(Head(kcall).sem)
    <3>1. cpu' = cpu
      BY <1>4, <2>4 DEF sysPasseren, sysVerhogen, Wake, Count
    <3> QED
      BY <1>2, <1>3, <2>2, <3>1
  <2> QED
    BY <2>3, <2>4
<1>5. CASE beginIO \/ releaseDevice \/ terminateProcess \/ terminateChildren
  <2>1. cpu = "kernel" /\ cpu' = cpu
    BY <1>5 DEF beginIO, releaseDevice, terminateProcess, terminateChildren, Running
  <2> QED
    BY <1>2, <1>3, <2>1
<1>6. CASE dispatch
  <2>1. g_ready_queue # <<>> /\ cpu' = p_s[Head(g_ready_queue)].at
    BY <1>6 DEF dispatch
  <2>2. Head(g_ready_queue) \in Pcb
    BY <1>1, <2>1, TailQueue DEF TypeOK
  <2>3. cpu' \in Interruptible
    BY <1>1, <2>1, <2>2, ContextTypes DEF TypeOK
  <2> QED
    BY <1>2, <1>3, <2>3
<1>7. CASE idle
  BY <1>7, IdleStops
<1>8. CASE recheck \/ WAIT \/ wakeUp \/ LDST
  <2>1. g_old_state.at \in Interruptible
    BY <1>1, ContextTypes DEF TypeOK
  <2>2. cpu' \in {"kernel", "checked", "waiting", Resume(g_old_state.at)}
    BY <1>8 DEF recheck, WAIT, wakeUp, LDST
  <2> QED
    BY <1>2, <1>3, <2>1, <2>2 DEF Stopped
<1>9. CASE UserStep
  <2>1. cpu' \in {"user", "kernel"}
    BY <1>9 DEF UserStep, sysCreateProcess, SYSCALL_TERMPROCESS, passUpOrDie, sysTerminateProcess,
       SYSCALL_PASSEREN, SYSCALL_VERHOGEN, sysDoIO, sysDoIOPanic, sysClockWait, Syscall
  <2> QED
    BY <1>2, <2>1 DEF Stopped
<1>10. CASE handleLocalTimer \/ handleSysTimer
  <2>1. CASE timerInUser \/ handleSysTimer \/ (timerInIdle /\ timerRevives)
    BY <1>2, <1>3, <2>1 DEF timerInUser, handleSysTimer, timerInIdle, timerRevives, Running
  <2>2. CASE timerInIdle /\ timerWithoutCurrent
    <3>1. /\ cpu' = "timerfault" /\ g_current_process' = NULL
          /\ g_ready_queue' = <<>> /\ g_soft_block_count' > 0
      BY <2>2 DEF timerInIdle, timerWithoutCurrent
    <3> QED
      BY <3>1 DEF StopsOnlyWhenStuck
  <2> QED
    BY <1>10, <2>1, <2>2 DEF handleLocalTimer, timerInIdle
<1>11. ASSUME NEW d \in Dev, handleDeviceInt(d)
       PROVE  StopsOnlyWhenStuck'
  <2>1. device[d] \in {"ok", "err"}
    BY <1>11 DEF handleDeviceInt
  <2>2. waiting_process[d] # NULL
    BY <2>1 DEF IoInv, DevicesInPhase, DeviceFree, DeviceUsed
  <2>3. cpu' = "kernel"
    BY <1>11, <2>2 DEF handleDeviceInt, endIO
  <2> QED
    BY <1>2, <1>3, <2>3
<1>12. CASE (\E d \in Dev : DeviceDone(d)) \/ Stop \/ UNCHANGED vars
  <2>1. UNCHANGED <<cpu, pcbFree_h, p_semAdd, p_s, g_current_process, g_ready_queue,
                    g_soft_block_count>>
    BY <1>12 DEF DeviceDone, Stop, vars, procVars, queueVars
  <2> QED
    BY <2>1 DEF StopsOnlyWhenStuck, Processes, Live
<1> QED
  BY <1>4, <1>5, <1>6, <1>7, <1>8, <1>9, <1>10, <1>11, <1>12 DEF Next, KernelStep, InterruptStep

(* With clients that follow the discipline the machine halts only when no  *)
(* process is left, and panics only when every process waits for another.  *)
(* Its only fault is the time slice that ends while the last process that  *)
(* can run blocks.                                                         *)
THEOREM StopsWhenStuck == ASSUME Client = {} PROVE Spec => []StopsOnlyWhenStuck
<1>1. IoClient /\ LifeClient
  BY DEF IoClient, LifeClient
<1>2. IInv /\ IoInv /\ CountInv /\ RunInv /\ SoftInv /\ StopsOnlyWhenStuck /\ [Next]_vars
        => StopsOnlyWhenStuck'
  BY NextStops
<1>3. Init => StopsOnlyWhenStuck
  BY DEF Init, StopsOnlyWhenStuck, Stopped
<1>4. Spec => []IoInv
  BY <1>1, IoInvariance
<1>5. Spec => []CountInv
  BY <1>1, CountInvariance
<1>6. Spec => []RunInv
  BY <1>1, RunInvariance
<1>7. Spec => []SoftInv
  BY <1>1, SoftCountSuffices
<1> QED
  BY <1>2, <1>3, <1>4, <1>5, <1>6, <1>7, Invariance, PTL DEF Spec

-----------------------------------------------------------------------------
(* The abstract life cycle *)

RunningProcess == {g_current_process} \cap Processes
ReadyProcesses == IF Ready \subseteq Processes THEN g_ready_queue ELSE <<>>

(* The instance has its own copy of the operators on sequences.            *)
LEMMA LifeOperators ==
  /\ \A q : life!ToSet(q) = ToSet(q)
  /\ \A q, e : life!RemoveFirst(q, e) = RemoveFirst(q, e)
<1>1. \A q, n : life!RemoveAt(q, n) = RemoveAt(q, n)
  BY DEF life!RemoveAt, RemoveAt
<1>2. \A q, e : life!RemoveFirst(q, e) = RemoveFirst(q, e)
  BY <1>1 DEF life!RemoveFirst, RemoveFirst, life!SelectInSeq, SelectInSeq, life!Min, Min
<1> QED
  BY <1>2 DEF life!ToSet, ToSet

(* Only the scheduler finds a PCB in the ready queue that is no process.   *)
LEMMA ReadyAreProcesses ==
  ASSUME IInv, RunInv, cpu # "kernel" \/ kcall # <<CallScheduler>>
  PROVE  Ready \subseteq Processes
<1>1. IdlePcb \cap Ready = {}
  BY IdlePcbNotReady DEF RunInv
<1>2. Ready \subseteq Pcb /\ Ready \cap pcbFree_h = {}
  BY DEF Ready, IInv, TypeOK, ListsExclusive, ToSet
<1> QED
  BY <1>1, <1>2 DEF IdlePcb, Processes, Live

(* A process that waits is one.                                            *)
LEMMA BlockedAreProcesses == ASSUME IInv, RunInv PROVE Blocked \subseteq Processes
  BY DEF IInv, ListsExclusive, RunInv, IdleLoopApart, Processes, Live, Blocked

(* Every process that is there has a place in the life cycle.              *)
LEMMA LifeState ==
  ASSUME Ready \subseteq Processes
  PROVE  /\ life!Alive = Ready \cup RunningProcess \cup Blocked \cup Dying
         /\ NoProcessLost => Processes \subseteq life!Alive
  BY LifeOperators DEF life!Alive, RunningProcess, Ready, NoProcessLost

(* A step that changes none of the four is no step of the life cycle.      *)
LEMMA LifeStutters ==
  ASSUME ReadyProcesses' = ReadyProcesses, RunningProcess' = RunningProcess, Blocked' = Blocked,
         Dying' = Dying
  PROVE  UNCHANGED life!lifeVars
  BY DEF life!lifeVars, RunningProcess, ReadyProcesses

(* In particular one that moves no process.                                *)
LEMMA LifeStays ==
  ASSUME UNCHANGED <<g_ready_queue, g_current_process, p_semAdd>>, Processes' = Processes,
         Dying' = Dying
  PROVE  UNCHANGED life!lifeVars
<1>1. ReadyProcesses' = ReadyProcesses /\ RunningProcess' = RunningProcess
  BY DEF ReadyProcesses, RunningProcess, Ready
<1>2. Blocked' = Blocked
  BY DEF Blocked
<1> QED
  BY <1>1, <1>2, LifeStutters

(* At the start there is one process, and it is ready.                     *)
LEMMA LifeStarts == Init => life!LifeInit
<1> SUFFICES ASSUME Init PROVE life!LifeInit
  OBVIOUS
<1>1. PICK root \in Pcb :
        /\ pcbFree_h = Pcb \ {root} /\ g_ready_queue = <<root>> /\ g_current_process = NULL
        /\ p_s = [p \in Pcb |-> NoContext]
        /\ p_semAdd = [p \in Pcb |-> NULL] /\ kcall = <<CallScheduler>>
  BY DEF Init
<1>2. RunningProcess = {} /\ Blocked = {}
  BY <1>1, NullAssumption DEF RunningProcess, Processes, Live, Blocked
<1>3. Dying = {}
  BY <1>1, QuietStacks, QuietNobodyDies
<1>4. ReadyProcesses = <<root>>
  BY <1>1, SingleFrame DEF ReadyProcesses, Ready, Processes, Live, NoContext
<1> QED
  BY <1>1, <1>2, <1>3, <1>4 DEF life!LifeInit, RunningProcess, ReadyProcesses

(* Processes join the ready queue, behind the others.                      *)
LEMMA LifeWakes ==
  ASSUME TypeOK, NEW q \in Seq(Pcb), q # <<>>, ToSet(q) \subseteq Blocked,
         Ready \subseteq Processes, Blocked \subseteq Processes, Processes' = Processes,
         g_ready_queue' = g_ready_queue \o q, Blocked' = Blocked \ ToSet(q),
         RunningProcess' = RunningProcess, Dying = {}, Dying' = {}
  PROVE  life!WakeSome
<1> DEFINE n == Len(g_ready_queue) + 1
<1>1. /\ n \in 1 .. Len(g_ready_queue')
      /\ SubSeq(g_ready_queue', 1, Len(g_ready_queue)) = g_ready_queue
      /\ ToSet(SubSeq(g_ready_queue', n, Len(g_ready_queue'))) = ToSet(q)
  BY ConcatSplit DEF TypeOK
<1>2. n - 1 = Len(g_ready_queue) /\ Blocked \ Blocked' = ToSet(q)
  BY DEF TypeOK
<1>3. ReadyProcesses = g_ready_queue /\ ReadyProcesses' = g_ready_queue'
  <2>1. Ready' = Ready \cup ToSet(q)
    BY ConcatQueue DEF Ready, TypeOK
  <2> QED
    BY <2>1 DEF ReadyProcesses
<1> HIDE DEF n
<1>4. /\ n \in 1 .. Len(ReadyProcesses')
      /\ ReadyProcesses = SubSeq(ReadyProcesses', 1, n - 1)
      /\ ToSet(SubSeq(ReadyProcesses', n, Len(ReadyProcesses'))) = Blocked \ Blocked'
  BY <1>1, <1>2, <1>3
<1>5. Blocked' \subseteq Blocked
  OBVIOUS
<1> QED
  BY <1>4, <1>5, LifeOperators DEF life!WakeSome, RunningProcess, ReadyProcesses

(* P and V: a process is woken, or the one that runs blocks.               *)
LEMMA LifeSemaphore ==
  ASSUME IInv, IoInv, RunInv, sysPasseren \/ sysVerhogen
  PROVE  life!LifeNext \/ UNCHANGED life!lifeVars
<1> DEFINE s == Head(kcall).sem
<1>1. PICK fn \in {"sysPasseren", "sysVerhogen"} : Running(fn)
  BY DEF sysPasseren, sysVerhogen
<1>2. /\ TypeOK /\ Queues /\ cpu = "kernel" /\ s \in SemAddr
      /\ Head(kcall).fn = fn
  BY <1>1, RunningFrame, FrameArguments, InvariantQueues
<1>3. Dying = {} /\ Dying' = {} /\ Processes' = Processes
  BY SemaphoresSpareTree, ContextsKept, QuietNobodyDies DEF Bystander
<1>4. Ready \subseteq Processes /\ Blocked \subseteq Processes
  BY <1>2, FrameNames, ShortTails, ReadyAreProcesses, BlockedAreProcesses
<1>5. CASE s_procq[s] # <<>> /\ Wake(s)
  <2> DEFINE h == Head(s_procq[s])
  <2>1. h \in Blocked /\ Blocked' = Blocked \ {h} /\ h \in Pcb
    BY <1>2, <1>5, RemoveBlockedQueues DEF Wake, Blocked
  <2>2. g_ready_queue' = Append(g_ready_queue, h) /\ UNCHANGED g_current_process
    BY <1>5 DEF Wake
  <2> HIDE DEF h
  <2>3. /\ <<h>> \in Seq(Pcb) /\ <<h>> # <<>> /\ ToSet(<<h>>) = {h}
        /\ g_ready_queue' = g_ready_queue \o <<h>>
    <3>1. g_ready_queue \in Seq(Pcb)
      BY <1>2 DEF TypeOK
    <3> QED
      BY <2>1, <2>2, <3>1, SingleFrame
  <2>4. RunningProcess' = RunningProcess
    BY <1>3, <2>2 DEF RunningProcess
  <2>5. life!WakeSome
    BY <1>2, <1>3, <1>4, <2>1, <2>3, <2>4, LifeWakes
  <2> QED
    BY <2>5 DEF life!LifeNext
<1>6. CASE \E delta \in Int : Count(s, delta)
  <2>1. UNCHANGED <<g_ready_queue, g_current_process, p_semAdd>>
    BY <1>6 DEF Count, queueVars
  <2> QED
    BY <1>3, <2>1, LifeStays
<1>7. CASE Block(s)
  <2>1. g_current_process \in Processes /\ g_current_process \in Live
    BY <1>2, <1>7, OnlySyscallsBlock, SyscallCurrent
  <2>2. /\ Blocked' = Blocked \cup {g_current_process} /\ g_current_process' = NULL
        /\ UNCHANGED g_ready_queue
    BY <1>2, <1>7, <2>1, BlockCurrent
  <2>3. RunningProcess = {g_current_process} /\ RunningProcess' = {}
    BY <1>3, <2>1, <2>2, NullAssumption DEF RunningProcess, Processes, Live
  <2>4. ReadyProcesses' = ReadyProcesses
    BY <1>3, <2>2 DEF ReadyProcesses, Ready
  <2>5. life!BlockRunning
    BY <1>3, <2>2, <2>3, <2>4 DEF life!BlockRunning, RunningProcess, ReadyProcesses
  <2> QED
    BY <2>5 DEF life!LifeNext
<1>8. (s_procq[s] # <<>> /\ Wake(s)) \/ (\E delta \in Int : Count(s, delta)) \/ Block(s)
  <2>1. Count(s, -1) \/ Count(s, 1) => \E delta \in Int : Count(s, delta)
    OBVIOUS
  <2> QED
    BY <2>1 DEF sysPasseren, sysVerhogen
<1> QED
  BY <1>5, <1>6, <1>7, <1>8

(* These steps move no process.                                            *)
LEMMA LifeRests ==
  ASSUME IInv, IoInv,
         \/ beginIO \/ releaseDevice \/ idle \/ recheck \/ WAIT \/ wakeUp \/ LDST
         \/ SYSCALL_PASSEREN \/ SYSCALL_VERHOGEN \/ sysDoIO \/ sysDoIOPanic \/ sysClockWait
         \/ \E d \in Dev : handleDeviceInt(d)
  PROVE  UNCHANGED life!lifeVars
<1>1. Dying = {} /\ Dying' = {} /\ Processes' = Processes
  BY TreeUntouched, ContextsKept, QuietNobodyDies DEF Bystander
<1>2. UNCHANGED <<g_ready_queue, g_current_process, p_semAdd>>
  <2>1. CASE releaseDevice
    <3>1. PICK d \in Dev : Releasing(d)
      BY <2>1, RunningStack DEF releaseDevice, IInv, IoInv
    <3>2. Head(kcall).dev = d /\ s_procq[mut(d)] = <<>>
      BY <3>1, ShortTails DEF Releasing, CallReleaseDevice, IoInv, DevicesInPhase
    <3>3. leaveDevice(d)
      BY <2>1, <3>2 DEF releaseDevice, passTheBaton
    <3> QED
      BY <2>1, <3>3 DEF releaseDevice, leaveDevice
  <2>2. CASE \/ beginIO \/ idle \/ recheck \/ WAIT \/ wakeUp \/ LDST
             \/ \E d \in Dev : handleDeviceInt(d)
    BY <2>2 DEF beginIO, idle, recheck, WAIT, wakeUp, LDST, handleDeviceInt, schedUnchanged, queueVars
  <2>3. CASE SYSCALL_PASSEREN \/ SYSCALL_VERHOGEN \/ sysDoIO \/ sysDoIOPanic \/ sysClockWait
    BY <2>3 DEF SYSCALL_PASSEREN, SYSCALL_VERHOGEN, sysDoIO, sysDoIOPanic, sysClockWait,
       Syscall, queueVars
  <2> QED
    BY <2>1, <2>2, <2>3
<1> QED
  BY <1>1, <1>2, LifeStays

(* The scheduler dispatches the head of the ready queue.  That it may      *)
(* resume the idle loop, with a PCB that is no process, is not seen here.  *)
LEMMA LifeDispatch ==
  ASSUME IInv, IoInv, RunInv, dispatch
  PROVE  life!Dispatch \/ UNCHANGED life!lifeVars
<1> DEFINE p == Head(g_ready_queue)
<1>1. /\ Running("scheduler") /\ g_ready_queue # <<>> /\ g_ready_queue' = Tail(g_ready_queue)
      /\ g_current_process' = p /\ UNCHANGED p_semAdd
  BY DEF dispatch, schedUnchanged
<1>2. Dying = {} /\ Dying' = {} /\ Processes' = Processes
  BY TreeUntouched, ContextsKept, QuietNobodyDies DEF Bystander
<1>3. RunningProcess = {} /\ Blocked' = Blocked
  BY <1>1 DEF RunInv, SchedulerHasNoCurrent, RunningProcess, Blocked
<1>4. p \in Pcb /\ p \in Ready /\ Ready' \subseteq Ready
  BY <1>1, TailQueue DEF IInv, TypeOK, Ready
<1>5. CASE Ready \subseteq Processes
  <2>1. RunningProcess' = {p}
    BY <1>1, <1>2, <1>4, <1>5 DEF RunningProcess
  <2>2. ReadyProcesses = g_ready_queue /\ ReadyProcesses' = g_ready_queue'
    BY <1>2, <1>4, <1>5 DEF ReadyProcesses
  <2>3. life!Dispatch
    BY <1>1, <1>2, <1>3, <2>1, <2>2 DEF life!Dispatch, RunningProcess, ReadyProcesses
  <2> QED
    BY <2>3
<1>6. CASE ~ (Ready \subseteq Processes)
  <2>1. PICK x \in Ready : x \notin Processes
    BY <1>6
  <2>2. x \in Pcb /\ x \notin pcbFree_h
    BY <2>1 DEF Ready, IInv, TypeOK, ListsExclusive, ToSet
  <2>3. g_ready_queue = <<x>>
    BY <2>1, <2>2 DEF RunInv, IdleLoopApart, Processes, Live
  <2>4. p = x /\ g_ready_queue' = <<>>
    BY <1>1, <2>3, ShortTails
  <2>5. RunningProcess' = {}
    BY <1>1, <1>2, <2>1, <2>4 DEF RunningProcess
  <2>6. ReadyProcesses = <<>> /\ ReadyProcesses' = <<>>
    BY <1>6, <2>4 DEF ReadyProcesses
  <2> QED
    BY <1>2, <1>3, <2>5, <2>6, LifeStutters
<1> QED
  BY <1>5, <1>6

(* The slice that ends in the idle loop is none of a process.              *)
LEMMA LifeTimerInIdle ==
  ASSUME IInv, IoInv, RunInv, timerInIdle
  PROVE  UNCHANGED life!lifeVars
<1> DEFINE c == g_current_process
<1>1. /\ TypeOK /\ c \notin Processes /\ g_ready_queue = <<>> /\ UNCHANGED p_semAdd
  BY DEF timerInIdle, IInv, RunInv, SchedulerHasNoCurrent
<1>2. Dying = {} /\ Dying' = {} /\ Processes' = Processes
  BY <1>1, TimerAddsNoProcess, QuietNobodyDies
<1>3. ReadyProcesses = <<>> /\ RunningProcess = {} /\ Blocked' = Blocked
  BY <1>1 DEF ReadyProcesses, RunningProcess, Blocked
<1>4. CASE timerWithoutCurrent
  BY <1>1, <1>2, <1>4, LifeStays DEF timerWithoutCurrent
<1>5. CASE timerRevives
  <2>1. g_ready_queue' = <<c>> /\ g_current_process' = NULL
    BY <1>5 DEF timerRevives
  <2>2. c \in Ready'
    BY <2>1, SingleFrame DEF Ready
  <2>3. ReadyProcesses' = <<>>
    BY <1>1, <1>2, <2>2 DEF ReadyProcesses
  <2>4. RunningProcess' = {}
    BY <1>2, <2>1, NullAssumption DEF RunningProcess, Processes, Live
  <2> QED
    BY <1>2, <1>3, <2>3, <2>4, LifeStutters
<1> QED
  BY <1>4, <1>5 DEF timerInIdle

(* SYS1: a free PCB has no place in the life cycle yet.                    *)
LEMMA LifeCreate == ASSUME IInv, IoInv, RunInv, sysCreateProcess PROVE life!Create
<1>1. PICK p \in pcbFree_h :
        /\ pcbFree_h' = pcbFree_h \ {p} /\ p_semAdd' = [p_semAdd EXCEPT ![p] = NULL]
        /\ p_s' = [p_s EXCEPT ![p] = NoContext]
        /\ g_ready_queue' = Append(g_ready_queue, p)
  BY DEF sysCreateProcess, allocPcb
<1>2. /\ TypeOK /\ cpu = "user" /\ kcall = <<>> /\ kcall' = <<>> /\ UNCHANGED g_current_process
      /\ pcbFree_h \cap (Ready \cup Blocked) = {}
  BY NoKernelNoStack DEF sysCreateProcess, IInv, IoInv, ListsExclusive
<1>3. p \in Pcb /\ Blocked' = Blocked /\ p \notin Processes
  BY <1>1, <1>2 DEF Processes, Live, TypeOK, Blocked
<1>4. Processes' = Processes \cup {p}
  <2>1. p_s'[p].at = "user" /\ \A q \in Pcb \ {p} : p_s'[q] = p_s[q]
    BY <1>1, <1>2, <1>3 DEF TypeOK, NoContext
  <2> QED
    BY <1>1, <1>3, <2>1 DEF Processes, Live
<1>5. g_current_process \in Processes
  BY <1>2, UserIsLive
<1>6. Dying = {} /\ Dying' = {}
  BY <1>2, QuietStacks, QuietNobodyDies
<1>7. RunningProcess = {g_current_process} /\ RunningProcess' = RunningProcess
  BY <1>2, <1>4, <1>5 DEF RunningProcess
<1>8. Ready \subseteq Processes /\ Ready' \subseteq Processes'
  <2>1. Ready \subseteq Processes
    BY <1>2, ReadyAreProcesses
  <2>2. Ready' = Ready \cup {p}
    BY <1>1, <1>2, <1>3, AppendQueue DEF Ready, TypeOK
  <2> QED
    BY <1>4, <2>1, <2>2
<1>9. p \in Pcb \ life!Alive
  BY <1>1, <1>2, <1>3, <1>5, <1>6, <1>7, <1>8, LifeState
<1>10. ReadyProcesses = g_ready_queue /\ ReadyProcesses' = Append(g_ready_queue, p)
  BY <1>1, <1>8 DEF ReadyProcesses
<1> QED
  BY <1>3, <1>6, <1>7, <1>9, <1>10 DEF life!Create, RunningProcess, ReadyProcesses

(* SYS2 and a trap begin a termination.                                    *)
LEMMA LifeTerminateCall ==
  ASSUME IInv, IoInv, TreeInv, RunInv, NEW p \in Processes, sysTerminateProcess(p)
  PROVE  life!BeginTermination
<1>1. /\ p \in Pcb /\ cpu = "user"
      /\ UNCHANGED <<g_ready_queue, g_current_process, p_semAdd, pcbFree_h, p_s>>
  BY DEF sysTerminateProcess, Syscall, queueVars, Processes, Live
<1>2. Ready \subseteq Processes
  BY <1>1, ReadyAreProcesses
<1>3. Dying = {} /\ Dying' = {p} /\ p \in life!Alive
  BY <1>1, <1>2, TreeTerminateCall, LifeState DEF RunInv
<1>4. /\ RunningProcess' = RunningProcess /\ ReadyProcesses' = ReadyProcesses
      /\ Blocked' = Blocked
  BY <1>1 DEF RunningProcess, ReadyProcesses, Ready, Processes, Live, Blocked
<1> QED
  BY <1>3, <1>4 DEF life!BeginTermination, RunningProcess, ReadyProcesses

(* A process whose termination has begun leaves its semaphore.             *)
LEMMA LifeTerminateProcess ==
  ASSUME IInv, IoInv, TreeInv, terminateProcess
  PROVE  life!Unblock \/ UNCHANGED life!lifeVars
<1> DEFINE p == Head(kcall).pcb
<1>1. TypeOK /\ Running("terminateProcess") /\ "terminateProcess" \in TermFn
  BY DEF terminateProcess, IInv, TermFn
<1>2. p \in Pcb /\ p \in Dying /\ Dying' = Dying
  BY <1>1, DyingStack, TreeTerminateProcess
<1>3. /\ UNCHANGED <<g_ready_queue, g_current_process>>
      /\ Processes' = Processes
  BY DEF terminateProcess, procVars, Processes, Live
<1>4. RunningProcess' = RunningProcess /\ ReadyProcesses' = ReadyProcesses
  BY <1>3 DEF RunningProcess, ReadyProcesses, Ready
<1>5. CASE p_semAdd[p] = NULL
  <2>1. UNCHANGED p_semAdd
    BY <1>5 DEF terminateProcess
  <2> QED
    BY <1>2, <1>3, <2>1, LifeStays
<1>6. CASE p_semAdd[p] # NULL
  <2>1. p_semAdd' = [p_semAdd EXCEPT ![p] = NULL]
    BY <1>6 DEF terminateProcess, outBlocked
  <2> HIDE DEF p
  <2>2. p \in Blocked /\ Blocked' = Blocked \ {p}
    BY <1>1, <1>2, <1>6, <2>1 DEF Blocked, TypeOK
  <2> QED
    BY <1>2, <1>4, <2>2 DEF life!Unblock, RunningProcess, ReadyProcesses
<1> QED
  BY <1>5, <1>6

(* The termination goes on with a child, or ends.                          *)
LEMMA LifeTerminateChildren ==
  ASSUME IInv, IoInv, TreeInv, CountInv, RunInv, terminateChildren
  PROVE  life!BeginTermination \/ life!EndTermination
<1> DEFINE p == Head(kcall).pcb
<1>1. TypeOK /\ Running("terminateChildren") /\ "terminateChildren" \in TermFn
  BY DEF terminateChildren, IInv, TermFn
<1>2. /\ kcall # <<>> /\ kcall \in Seq(Frame) /\ p \in Pcb /\ p \in Dying
      /\ Head(kcall).fn = "terminateChildren"
  BY <1>1, DyingStack
<1>3. UNCHANGED <<p_semAdd, p_parent, p_s, g_current_process>>
  BY DEF terminateChildren
<1>4. Blocked' = Blocked
  BY <1>3 DEF Blocked
<1>5. Ready \subseteq Processes
  BY <1>2, FrameNames, ShortTails, ReadyAreProcesses
<1>6. CASE terminateNext(p)
  <2>1. PICK c \in p_child[p] :
          /\ p_child' = [p_child EXCEPT ![p] = @ \ {c}]
          /\ kcall' = <<CallTerminateProcess(c)>> \o kcall
          /\ UNCHANGED <<pcbFree_h, p_parent, g_ready_queue>>
    BY <1>6, <1>3 DEF terminateNext
  <2>2. c \in Live /\ c \notin Dying /\ Dying' = Dying \cup {c}
    BY <1>1, <1>3, <2>1, TreeTerminateNext
  <2>3. c \in Processes
    BY <1>2, <2>1, <2>2 DEF RunInv, IdleLoopApart, Processes, Live
  <2>4. c \in life!Alive \ Dying
    BY <1>5, <2>2, <2>3, LifeState DEF RunInv
  <2>5. RunningProcess' = RunningProcess /\ ReadyProcesses' = ReadyProcesses
    BY <1>3, <2>1 DEF RunningProcess, ReadyProcesses, Ready, Processes, Live
  <2> QED
    BY <1>4, <2>2, <2>4, <2>5 DEF life!BeginTermination, RunningProcess, ReadyProcesses
<1>7. CASE terminated(p)
  <2>1. /\ kcall' = Tail(kcall) /\ pcbFree_h' = pcbFree_h \cup {p}
        /\ g_ready_queue' = RemoveFirst(g_ready_queue, p)
    BY <1>7 DEF terminated, freePcb, Return
  <2>2. Dying' = Dying \ {p}
    <3> DEFINE t == Tail(kcall)
    <3>1. /\ \A g \in ToSet(t) : g.fn \in TermFn => g.pcb # p
          /\ t \in Seq(Frame)
      BY <1>1, <1>2, OncePop, PopStack DEF CountInv
    <3>2. kcall' = t
      BY <2>1
    <3> HIDE DEF t
    <3>3. p \notin Dying'
      BY <3>1, <3>2 DEF Dying, TermFn
    <3>4. Dying' \subseteq Dying /\ Dying \subseteq Dying' \cup {p}
      BY <1>1, <2>1, DyingStack
    <3> QED
      BY <3>3, <3>4
  <2>3. p \notin Blocked
    BY <1>2, TailQueue DEF IInv, OffSemaphore, Blocked
  <2>4. Processes' = Processes \ {p}
    BY <1>3, <2>1 DEF Processes, Live
  <2>5. RunningProcess' = RunningProcess \ {p}
    BY <1>3, <2>4 DEF RunningProcess
  <2>6. Ready' = Ready \ {p}
    BY <2>1, RemoveFirstQueue DEF IInv, TypeOK, ListsExclusive, Ready
  <2>7. ReadyProcesses = g_ready_queue /\ ReadyProcesses' = RemoveFirst(g_ready_queue, p)
    BY <1>5, <2>1, <2>4, <2>6 DEF ReadyProcesses
  <2> HIDE DEF p
  <2> QED
    BY <1>2, <1>4, <2>2, <2>3, <2>5, <2>7, LifeOperators
       DEF life!EndTermination, RunningProcess, ReadyProcesses
<1> QED
  BY <1>6, <1>7 DEF terminateChildren

(* The end of the time slice of a process, and a tick.                     *)
LEMMA LifeTimers ==
  ASSUME IInv, IoInv, RunInv, timerInUser \/ handleSysTimer
  PROVE  life!LifeNext \/ UNCHANGED life!lifeVars
<1>1. TypeOK /\ Queues /\ Dying = {} /\ Dying' = {} /\ Processes' = Processes
  BY TreeUntouched, ContextsKept, QuietNobodyDies, InvariantQueues DEF Bystander
<1>2. Ready \subseteq Processes /\ Blocked \subseteq Processes
  BY ReadyAreProcesses, BlockedAreProcesses, ContextTypes DEF timerInUser, handleSysTimer
<1>3. CASE timerInUser
  <2>1. /\ g_ready_queue' = Append(g_ready_queue, g_current_process) /\ g_current_process' = NULL
        /\ UNCHANGED p_semAdd
    BY <1>3 DEF timerInUser, schedUnchanged
  <2>2. g_current_process \in Processes /\ g_current_process \in Pcb
    BY <1>3, UserIsLive DEF timerInUser
  <2>3. RunningProcess = {g_current_process} /\ RunningProcess' = {} /\ Blocked' = Blocked
    BY <1>1, <2>1, <2>2, NullAssumption DEF RunningProcess, Processes, Live, Blocked
  <2>4. Ready' = Ready \cup {g_current_process}
    BY <1>1, <2>1, <2>2, AppendQueue DEF Ready, TypeOK
  <2>5. /\ ReadyProcesses = g_ready_queue
        /\ ReadyProcesses' = Append(g_ready_queue, g_current_process)
    BY <1>1, <1>2, <2>1, <2>2, <2>4 DEF ReadyProcesses
  <2>6. life!Preempt
    BY <1>1, <2>3, <2>5 DEF life!Preempt, RunningProcess, ReadyProcesses
  <2> QED
    BY <2>6 DEF life!LifeNext
<1>4. CASE handleSysTimer
  <2> DEFINE q == s_procq[g_pseudo_clock]
  <2>1. /\ p_semAdd' = [p \in Pcb |-> IF p \in ToSet(q) THEN NULL ELSE p_semAdd[p]]
        /\ g_ready_queue' = g_ready_queue \o q /\ UNCHANGED g_current_process
    BY <1>4 DEF handleSysTimer
  <2>2. q \in Seq(Pcb) /\ ToSet(q) \subseteq Blocked
    BY <1>1, SemAddrTypes, QueuedIsBlocked DEF TypeOK
  <2> HIDE DEF q
  <2>3. Blocked' = Blocked \ ToSet(q) /\ RunningProcess' = RunningProcess
    BY <1>1, <2>1 DEF Blocked, RunningProcess
  <2>4. CASE q = <<>>
    <3>1. g_ready_queue' = g_ready_queue /\ Blocked' = Blocked
      BY <1>1, <2>1, <2>3, <2>4, EmptyQueue DEF TypeOK
    <3>2. ReadyProcesses' = ReadyProcesses
      BY <1>1, <3>1 DEF ReadyProcesses, Ready
    <3> QED
      BY <1>1, <2>3, <3>1, <3>2, LifeStutters
  <2>5. CASE q # <<>>
    <3>1. life!WakeSome
      BY <1>1, <1>2, <2>1, <2>2, <2>3, <2>5, LifeWakes
    <3> QED
      BY <3>1 DEF life!LifeNext
  <2> QED
    BY <2>4, <2>5
<1> QED
  BY <1>3, <1>4

(* Every step is one of the life cycle, or changes nothing in it.          *)
LEMMA NextLife ==
  ASSUME LifeClient, IInv, IoInv, TreeInv, CountInv, RunInv, [Next]_vars
  PROVE  life!LifeNext \/ UNCHANGED life!lifeVars
<1>1. CASE KernelStep
  BY <1>1, LifeSemaphore, LifeRests, LifeDispatch, LifeTerminateProcess, LifeTerminateChildren
     DEF KernelStep, life!LifeNext
<1>2. CASE UserStep
  <2>1. CASE SYSCALL_TERMPROCESS \/ passUpOrDie
    <3>1. cpu = "user" /\ g_current_process \in Processes
      BY <2>1, UserIsLive DEF SYSCALL_TERMPROCESS, passUpOrDie, sysTerminateProcess, Syscall
    <3>2. PICK p \in Processes : sysTerminateProcess(p)
      BY <2>1, <3>1, TerminatedIsProcess
         DEF SYSCALL_TERMPROCESS, passUpOrDie, MayTerminate, LifeClient, Live
    <3> QED
      BY <3>2, LifeTerminateCall DEF life!LifeNext
  <2> QED
    BY <1>2, <2>1, LifeCreate, LifeRests DEF UserStep, life!LifeNext
<1>3. CASE InterruptStep
  BY <1>3, LifeTimers, LifeTimerInIdle, LifeRests DEF InterruptStep, handleLocalTimer
<1>4. CASE (\E d \in Dev : DeviceDone(d)) \/ Stop \/ UNCHANGED vars
  <2>1. UNCHANGED <<pcbFree_h, p_s, p_semAdd, g_ready_queue, g_current_process, kcall>>
    BY <1>4 DEF DeviceDone, Stop, vars, procVars, queueVars
  <2> QED
    BY <2>1, LifeStays DEF Processes, Live, Dying
<1> QED
  BY <1>1, <1>2, <1>3, <1>4 DEF Next

(* The nucleus implements the abstract life cycle: a process that has      *)
(* ended is never scheduled again, although its PCB may be.                *)
THEOREM LifeCycleImplemented == ASSUME LifeClient PROVE Spec => LifeCycle
<1>1. IoClient
  BY DEF LifeClient
<1>2. IInv /\ IoInv /\ TreeInv /\ CountInv /\ RunInv /\ [Next]_vars
        => [life!LifeNext]_life!lifeVars
  BY NextLife
<1>3. Spec => []IoInv
  BY <1>1, IoInvariance
<1>4. Spec => []TreeInv
  BY <1>1, TreeInvariance
<1> QED
  BY <1>2, <1>3, <1>4, CountInvariance, RunInvariance, LifeStarts, Invariance, PTL
     DEF Spec, LifeCycle, life!LifeSpec

(* The invariant of the disciplined client, part by part: every part has   *)
(* a theorem of its own above, and this is the formula the run Disciplined *)
(* checks.                                                                 *)
THEOREM DisciplineInvariance == ASSUME LifeClient PROVE Spec => []DisciplineInv
<1>1. IoClient
  BY DEF LifeClient
<1>2. IInv /\ IoInv /\ TreeInv /\ CountInv /\ RunInv /\ SoftInv => DisciplineInv
  BY DEF DisciplineInv
<1>3. Spec => []IoInv
  BY <1>1, IoInvariance
<1>4. Spec => []TreeInv
  BY <1>1, TreeInvariance
<1>5. Spec => []SoftInv
  BY <1>1, SoftCountSuffices
<1> QED
  BY <1>2, <1>3, <1>4, <1>5, Invariance, CountInvariance, RunInvariance, PTL
=============================================================================
