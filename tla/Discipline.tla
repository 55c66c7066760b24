----------------------------- MODULE Discipline ----------------------------
(***************************************************************************)
(* The inductive invariants behind the properties of Nucleus that depend   *)
(* on what the clients do: how the kernel's call stack, the devices with   *)
(* their semaphores, the process tree and the counters go together between *)
(* any two steps of the kernel.                                            *)
(***************************************************************************)
EXTENDS Nucleus

TermFn == {"terminateProcess", "terminateChildren"}
UserSem == {"user"} \X Sem

-----------------------------------------------------------------------------
(* The call stack *)

(* A termination in progress: the process whose turn it is on top, its     *)
(* ancestors in the terminated tree below it, the scheduler at the bottom. *)
(* The scheduler alone is what is left when the termination is over.       *)
TerminationStack(k) ==
  /\ k # <<>>
  /\ k[Len(k)] = CallScheduler
  /\ \A i \in 1 .. Len(k) - 1 : k[i].fn \in TermFn

(* The steps of a DOIO and of the interrupt that ends it.                  *)
Asked(d) == kcall = <<CallPasseren(mut(d)), CallBeginIO(d, g_current_process)>>
Claimed(d) == kcall = <<CallBeginIO(d, g_current_process)>>
Commanded(d) == kcall = <<CallPasseren(sync(d))>>
Signalling(d) == kcall = <<CallVerhogen(sync(d)), CallReleaseDevice(d)>>
Releasing(d) == kcall = <<CallReleaseDevice(d)>>

(* A system call that may block is executed for a process, and the saved   *)
(* state says which one it is.                                             *)
SyscallStack ==
  /\ g_old_state.at = "user"
  /\ \/ /\ g_old_state.call = "PASSEREN"
        /\ \E s \in UserSem : kcall = <<CallPasseren(s)>>
     \/ /\ g_old_state.call = "VERHOGEN"
        /\ \E s \in UserSem : kcall = <<CallVerhogen(s)>>
     \/ /\ g_old_state.call = "CLOCKWAIT"
        /\ kcall = <<CallPasseren(g_pseudo_clock)>>
     \/ /\ g_old_state.call = "DOIO"
        /\ \E d \in Dev : Asked(d) \/ Claimed(d) \/ Commanded(d)

InterruptStack == \E d \in Dev : Signalling(d) \/ Releasing(d)

StackShape ==
  kcall # <<>> =>
    /\ cpu = "kernel"
    /\ TerminationStack(kcall) \/ SyscallStack \/ InterruptStack

-----------------------------------------------------------------------------
(* The devices *)

(* Nobody uses the device, or its user has the mutex and is about to give  *)
(* the command.                                                            *)
DeviceFree(d) ==
  /\ waiting_process[d] = NULL
  /\ device[d] = "idle"
  /\ s_procq[sync(d)] = <<>>
  /\ semaphore[mut(d)] = IF Claimed(d) THEN 0 ELSE 1
  /\ ~ Commanded(d) /\ ~ Signalling(d) /\ ~ Releasing(d)

(* The command was given and the mutex is not yet released: the process    *)
(* that waits is the only one in the queue of the sync semaphore, except   *)
(* just before it blocks and just after it was woken.                      *)
DeviceUsed(d) ==
  /\ waiting_process[d] # NULL
  /\ device[d] = "idle" <=> Signalling(d) \/ Releasing(d)
  /\ semaphore[mut(d)] = 0
  /\ ~ Asked(d) /\ ~ Claimed(d)
  /\ Commanded(d) => waiting_process[d] = g_current_process
  /\ IF Commanded(d) \/ Releasing(d)
     THEN s_procq[sync(d)] = <<>>
     ELSE /\ s_procq[sync(d)] = <<waiting_process[d]>>
          /\ p_s[waiting_process[d]].call = "DOIO"
  /\ Signalling(d) => p_s[waiting_process[d]].v0 \in {"ok", "err"}

(* With one process at a time on a device nobody waits for its mutex.      *)
DevicesInPhase ==
  \A d \in Dev :
    /\ s_procq[mut(d)] = <<>>
    /\ semaphore[sync(d)] = 0
    /\ DeviceFree(d) \/ DeviceUsed(d)

(* A termination does not reach a process that waits for a device.         *)
TerminationSparesIo ==
  \A f \in ToSet(kcall) :
    f.fn \in TermFn => \A d \in Dev : waiting_process[d] \notin Subtree(f.pcb)

(* The semaphores of programs and clock are binary, and the value explains *)
(* who waits.                                                              *)
WaitersOnValues ==
  /\ \A s \in UserSem \cup {g_pseudo_clock} : semaphore[s] \in {0, 1}
  /\ \A p \in Blocked :
       /\ p_semAdd[p] \in UserSem =>
            \/ p_s[p].call = "PASSEREN" /\ semaphore[p_semAdd[p]] = 0
            \/ p_s[p].call = "VERHOGEN" /\ semaphore[p_semAdd[p]] = 1
       /\ p_semAdd[p] = g_pseudo_clock =>
            p_s[p].call = "CLOCKWAIT" /\ semaphore[g_pseudo_clock] = 0

(* For clients that neither share devices nor terminate processes in I/O.  *)
IoClient == Client \cap {"SHARE_DEVICE", "TERM_IN_IO"} = {}

IoInv ==
  /\ StackShape
  /\ DevicesInPhase
  /\ TerminationSparesIo
  /\ WaitersOnValues
  /\ IoResultDelivered

-----------------------------------------------------------------------------
(* The mutexes of the devices, whatever the clients do *)

(* The stacks when devices are shared and processes in I/O are terminated: *)
(* DOIO may go on for the process that was next for the mutex.             *)
AnyStack ==
  kcall # <<>> =>
    \/ TerminationStack(kcall)
    \/ \E s \in UserSem \cup {g_pseudo_clock} :
         kcall \in {<<CallPasseren(s)>>, <<CallVerhogen(s)>>}
    \/ \E d \in Dev :
         \/ Commanded(d) \/ Signalling(d) \/ Releasing(d)
         \/ \E p \in Pcb : \/ kcall = <<CallPasseren(mut(d)), CallBeginIO(d, p)>>
                            \/ kcall = <<CallBeginIO(d, p)>>

(* The kernel is about to use the device, or to give it to someone else.   *)
HoldsDevice(k, d) ==
  \/ \E p \in Pcb : k = <<CallBeginIO(d, p)>>
  \/ k = <<CallVerhogen(sync(d)), CallReleaseDevice(d)>>
  \/ k = <<CallReleaseDevice(d)>>

(* The mutex is free only when the device is, and nobody waits for it.     *)
MutexSound(d) ==
  /\ semaphore[mut(d)] \in {0, 1}
  /\ semaphore[mut(d)] = 1 => s_procq[mut(d)] = <<>> /\ device[d] = "idle"
  /\ HoldsDevice(kcall, d) => semaphore[mut(d)] = 0 /\ device[d] = "idle"

(* The device and its mutex agree while the mutex is passed from process   *)
(* to process by the interrupt handler, and while the one that holds it is *)
(* terminated.                                                             *)
MutexInv == AnyStack /\ \A d \in Dev : MutexSound(d)

-----------------------------------------------------------------------------
(* The process tree *)

(* Parents and children agree, except that a process whose termination has *)
(* begun is no longer among the children of its parent, and a PCB that the *)
(* timer took off the free list has the parent of the process it was.      *)
TreeInv ==
  /\ \A p \in Pcb : \A c \in p_child[p] :
       c \in Live /\ c \notin Dying /\ p_parent[c] = p
  /\ \A p \in pcbFree_h : p_child[p] = {}
  /\ \A p \in Processes \ Dying : p_parent[p] # NULL => p \in p_child[p_parent[p]]

(* No process is on the stack twice, so that it is freed, and counted, only *)
(* once.                                                                   *)
DyingOnce(k) ==
  \A i, j \in 1 .. Len(k) :
    k[i].fn \in TermFn /\ k[j].fn \in TermFn /\ k[i].pcb = k[j].pcb => i = j

CountInv ==
  /\ Dying \subseteq Processes
  /\ DyingOnce(kcall)
  /\ ProcessCountExact

-----------------------------------------------------------------------------
(* The current process *)

(* A process that terminates a tree belongs to it, and where the scheduler *)
(* looks for another process the last one cannot continue.                 *)
CurrentInTree ==
  kcall # <<>> /\ Head(kcall).fn \in TermFn =>
    \/ g_current_process \in pcbFree_h
    \/ \E f \in ToSet(kcall) : f.fn \in TermFn /\ g_current_process \in Subtree(f.pcb)

SchedulerHasNoCurrent ==
  (\/ Running("scheduler")
   \/ cpu \in IdlePoint
   \/ cpu = "kernel" /\ g_old_state.at \in IdlePoint)
    => g_current_process \notin Processes

(* A PCB that holds the context of the idle loop: it never waits, is in no *)
(* tree, and is the only one that can be dispatched when it is.            *)
IdleLoopApart ==
  \A p \in Pcb : p_s[p].at # "user" =>
    /\ p \in Live /\ p \notin Blocked \cup Dying
    /\ p_child[p] = {} /\ \A q \in Pcb : p \notin p_child[q]
    /\ p \in Ready => g_ready_queue = <<p>> /\ cpu = "kernel" /\ kcall = <<CallScheduler>>

(* For clients that, besides, only use the pids of processes that are      *)
(* there, and terminate only themselves or their ancestors.                *)
LifeClient == IoClient /\ Client \cap {"STALE_PID", "TERM_OTHER"} = {}

RunInv == CurrentInTree /\ SchedulerHasNoCurrent /\ IdleLoopApart /\ NoProcessLost

(* The processes g_soft_block_count has to count: those that wait for a    *)
(* device or the clock and those about to, without the one that a device   *)
(* interrupt is waking.                                                    *)
Counted ==
  {p \in SoftBlocked : \A d \in Dev : Signalling(d) => p # waiting_process[d]}
    \cup {p \in {g_current_process} :
            \/ kcall = <<CallPasseren(g_pseudo_clock)>>
            \/ \E d \in Dev : Commanded(d)}

(* g_soft_block_count misses none of them, so that the scheduler does not  *)
(* PANIC while an interrupt is to come.  It may count more: CLOCKWAIT that *)
(* does not block, and the termination of a process in clock wait, leave   *)
(* it too high.                                                            *)
SoftInv == Cardinality(Counted) <= g_soft_block_count

(* What holds between any two steps of the kernel with disciplined         *)
(* programs: the conjunction of the inductive invariants.                  *)
DisciplineInv == IInv /\ IoInv /\ TreeInv /\ CountInv /\ RunInv /\ SoftInv
=============================================================================
