------------------------------ MODULE Nucleus ------------------------------
(***************************************************************************)
(* The nucleus of PandOS (src/phase2, with the queues of src/phase1):      *)
(* process creation and termination, the semaphores, device I/O, the       *)
(* pseudo-clock, interrupts and the scheduler.                             *)
(*                                                                         *)
(* The machine has one processor.  Kernel code runs with interrupts        *)
(* masked, except in the scheduler's idle loop, so what interleaves is:    *)
(* system calls of the running process, interrupts (which hit the running  *)
(* process or a point of the idle loop) and the devices.                   *)
(*                                                                         *)
(* A C function that calls another one and goes on afterwards is a frame   *)
(* of kcall, the kernel's call stack: every step below executes the frame  *)
(* on top.  Blocking (sysPasseren, sysVerhogen) and scheduler() never      *)
(* return, hence they discard the stack.                                   *)
(***************************************************************************)
EXTENDS Integers, FiniteSets, SequencesExt

CONSTANTS
  Pcb,      \* the entries of pcbFree_table; a pid is a pcb_t pointer
  Sem,      \* the semaphores user programs declare
  Dev,      \* the (sub)devices, one sysiostate_t each
  NULL,
  Client,   \* what the user programs are allowed to do, see ClientFeature
  MaxSoft   \* bound on |g_soft_block_count|, which the code can leak, and
            \* on how far g_process_count can fall below 0 with STALE_PID

(* The features of a client beyond the discipline of test/p2test.c:        *)
(*   TERM_OTHER    SYS2 on a process that is not the caller or one of its  *)
(*                 ancestors                                               *)
(*   TERM_IN_IO    SYS2 on a tree with a process that waits for a device   *)
(*   SHARE_DEVICE  DOIO on a device whose mutex another process holds      *)
(*   BAD_ADDRESS   DOIO on an address that is no device register           *)
(*   STALE_PID     SYS2 on the pid of a process that has ended             *)
ClientFeature == {"TERM_OTHER", "TERM_IN_IO", "SHARE_DEVICE", "BAD_ADDRESS", "STALE_PID"}

(* The addresses of the integers used as semaphores.                       *)
mut(d) == <<"mut", d>>
sync(d) == <<"sync", d>>
g_pseudo_clock == <<"clock", NULL>>
SemAddr == ({"user"} \X Sem) \cup ({"mut", "sync"} \X Dev) \cup {g_pseudo_clock}

ASSUME PcbAssumption == IsFiniteSet(Pcb) /\ Pcb # {}
ASSUME NullAssumption == NULL \notin Pcb \cup SemAddr
ASSUME ClientAssumption == Client \subseteq ClientFeature
ASSUME BoundAssumption == MaxSoft \in Nat \ {0}

VARIABLES
  pcbFree_h,          \* the free PCBs
  p_parent, p_child,  \* the process tree
  p_semAdd,           \* the semaphore a process is blocked on, or NULL
  p_s,                \* the saved processor state of a process
  s_procq,            \* the queue of the processes blocked on a semaphore
  semaphore,          \* the value of the integer at a semaphore address
  waiting_process,    \* sysiostate_t: whose I/O the device performs
  g_process_count, g_soft_block_count, g_ready_queue, g_current_process,
  g_old_state,        \* the processor state saved by the last exception
  cpu,                \* where the processor is
  kcall,              \* the kernel's call stack, top first
  device              \* the status of the devices (hardware)

procVars == <<pcbFree_h, p_parent, p_child, g_process_count>>
queueVars == <<s_procq, p_semAdd, g_ready_queue>>
ioVars == <<waiting_process, device>>
vars == <<procVars, queueVars, ioVars, p_s, semaphore, g_soft_block_count,
          g_current_process, g_old_state, cpu, kcall>>

-----------------------------------------------------------------------------
(* Types *)

(* Points of the scheduler's loop at which interrupts are enabled: after   *)
(* setSTATUS, after the second look at the ready queue, in WAIT and after  *)
(* it.                                                                     *)
IdlePoint == {"enabled", "checked", "waiting", "woken"}
Stopped == {"halt", "panic", "fault", "spin", "timerfault"}
Cpu == {"user", "kernel"} \cup IdlePoint \cup Stopped
Interruptible == {"user"} \cup IdlePoint

(* A saved state_t: where execution resumes, the exception that saved it   *)
(* (TIMER is the local timer in the idle loop) and the contents of v0 as   *)
(* far as DOIO's result is concerned.                                      *)
Context == [at   : Interruptible,
            call : {"none", "INT", "TIMER", "PASSEREN", "VERHOGEN", "DOIO", "CLOCKWAIT"},
            v0   : {"none", "ok", "err"}]
NoContext == [at |-> "user", call |-> "none", v0 |-> "none"]

Frame == [fn : {"sysPasseren", "sysVerhogen"}, sem : SemAddr]
           \cup [fn : {"beginIO"}, dev : Dev, pcb : Pcb]
           \cup [fn : {"releaseDevice"}, dev : Dev]
           \cup [fn : {"terminateProcess", "terminateChildren"}, pcb : Pcb]
           \cup [fn : {"scheduler"}]

TypeOK ==
  /\ pcbFree_h \subseteq Pcb
  /\ p_parent \in [Pcb -> Pcb \cup {NULL}]
  /\ p_child \in [Pcb -> SUBSET Pcb]
  /\ p_semAdd \in [Pcb -> SemAddr \cup {NULL}]
  /\ p_s \in [Pcb -> Context]
  /\ s_procq \in [SemAddr -> Seq(Pcb)]
  /\ semaphore \in [SemAddr -> Int]
  /\ waiting_process \in [Dev -> Pcb \cup {NULL}]
  /\ g_process_count \in Int
  /\ g_soft_block_count \in Int
  /\ g_ready_queue \in Seq(Pcb)
  /\ g_current_process \in Pcb \cup {NULL}
  /\ g_old_state \in Context
  /\ cpu \in Cpu
  /\ kcall \in Seq(Frame)
  /\ device \in [Dev -> {"idle", "busy", "ok", "err"}]

-----------------------------------------------------------------------------
(* The call stack *)

CallPasseren(s) == [fn |-> "sysPasseren", sem |-> s]
CallVerhogen(s) == [fn |-> "sysVerhogen", sem |-> s]
CallBeginIO(d, p) == [fn |-> "beginIO", dev |-> d, pcb |-> p]
CallReleaseDevice(d) == [fn |-> "releaseDevice", dev |-> d]
CallTerminateProcess(p) == [fn |-> "terminateProcess", pcb |-> p]
CallTerminateChildren(p) == [fn |-> "terminateChildren", pcb |-> p]
CallScheduler == [fn |-> "scheduler"]

Running(f) == cpu = "kernel" /\ kcall # <<>> /\ Head(kcall).fn = f
Return == kcall' = Tail(kcall)

(* main: the state in which scheduler() is first called.  One process,     *)
(* test(), has been launched.                                              *)
Init ==
  \E root \in Pcb :
    /\ pcbFree_h = Pcb \ {root}
    /\ p_parent = [p \in Pcb |-> NULL]
    /\ p_child = [p \in Pcb |-> {}]
    /\ p_semAdd = [p \in Pcb |-> NULL]
    /\ p_s = [p \in Pcb |-> NoContext]
    /\ s_procq = [s \in SemAddr |-> <<>>]
    /\ \E user \in [Sem -> {0, 1}] :
         semaphore = [s \in SemAddr |->
                        CASE s[1] = "user" -> user[s[2]]
                          [] s[1] = "sync" -> 0
                          [] OTHER         -> 1]
    /\ waiting_process = [d \in Dev |-> NULL]
    /\ g_process_count = 1
    /\ g_soft_block_count = 0
    /\ g_ready_queue = <<root>>
    /\ g_current_process = NULL
    /\ g_old_state = NoContext
    /\ cpu = "kernel"
    /\ kcall = <<CallScheduler>>
    /\ device = [d \in Dev |-> "idle"]

-----------------------------------------------------------------------------
(* Semaphores (phase1/semaphore.c): a SEMD is in use exactly while its     *)
(* queue is not empty, and there are MAX_PROC of them.                     *)

ActiveSemd == {s \in SemAddr : s_procq[s] # <<>>}
(* Mutant: one descriptor too few.                                         *)
SemdAvailableFewer(s) ==
  s \in ActiveSemd \/ Cardinality(ActiveSemd) < Cardinality(Pcb) - 1

SemdAvailable(s) == s \in ActiveSemd \/ Cardinality(ActiveSemd) < Cardinality(Pcb)

(* insertBlocked's result is ignored by its callers: without a free SEMD   *)
(* the process is put nowhere.  list_delete_safe unlinks the PCB from the  *)
(* list it is in; for a running process this can only be the free list.    *)
insertBlocked(s, p) ==
  IF SemdAvailable(s)
  THEN /\ pcbFree_h' = pcbFree_h \ {p}
       /\ s_procq' = [s_procq EXCEPT ![s] = Append(@, p)]
       /\ p_semAdd' = [p_semAdd EXCEPT ![p] = s]
  ELSE UNCHANGED <<pcbFree_h, s_procq, p_semAdd>>

(* Mutant: the process that leaves the queue keeps its p_semAdd.           *)
removeBlockedKeepsSemAdd(s) ==
  /\ s_procq' = [s_procq EXCEPT ![s] = Tail(@)]
  /\ UNCHANGED p_semAdd

(* removeBlocked on a queue that is not empty; the result is its head.     *)
removeBlocked(s) ==
  /\ s_procq' = [s_procq EXCEPT ![s] = Tail(@)]
  /\ p_semAdd' = [p_semAdd EXCEPT ![Head(s_procq[s])] = NULL]

(* The tail shared by sysPasseren and sysVerhogen: block the current       *)
(* process and run another one.  With no current process the kernel        *)
(* writes through a null pointer.                                          *)
Block(s) ==
  /\ IF g_current_process = NULL
     THEN /\ cpu' = "fault"
          /\ kcall' = <<>>
          /\ UNCHANGED <<p_s, pcbFree_h, s_procq, p_semAdd, g_current_process>>
     ELSE /\ p_s' = [p_s EXCEPT ![g_current_process] = g_old_state]
          /\ insertBlocked(s, g_current_process)
          /\ g_current_process' = NULL
          /\ kcall' = <<CallScheduler>>
          /\ UNCHANGED cpu
  /\ UNCHANGED <<g_ready_queue, semaphore>>

(* Mutants: the process is woken and put nowhere, or in front of the       *)
(* others, or the value changes although a process was woken.              *)
WakeForgets(s) ==
  /\ removeBlocked(s)
  /\ Return
  /\ UNCHANGED <<g_ready_queue, semaphore, p_s, pcbFree_h, g_current_process, cpu>>

WakeInFront(s) ==
  /\ removeBlocked(s)
  /\ g_ready_queue' = <<Head(s_procq[s])>> \o g_ready_queue
  /\ Return
  /\ UNCHANGED <<semaphore, p_s, pcbFree_h, g_current_process, cpu>>

WakeAndCount(s) ==
  /\ removeBlocked(s)
  /\ g_ready_queue' = Append(g_ready_queue, Head(s_procq[s]))
  /\ semaphore' = [semaphore EXCEPT ![s] = 1 - @]
  /\ Return
  /\ UNCHANGED <<p_s, pcbFree_h, g_current_process, cpu>>

(* The head of the queue of s becomes ready.                               *)
Wake(s) ==
  /\ removeBlocked(s)
  /\ g_ready_queue' = Append(g_ready_queue, Head(s_procq[s]))
  /\ Return
  /\ UNCHANGED <<semaphore, p_s, pcbFree_h, g_current_process, cpu>>

(* Nobody waits: the value changes by delta.                               *)
Count(s, delta) ==
  /\ semaphore' = [semaphore EXCEPT ![s] = @ + delta]
  /\ Return
  /\ UNCHANGED <<queueVars, p_s, pcbFree_h, g_current_process, cpu>>

sysPasseren ==
  /\ Running("sysPasseren")
  /\ LET s == Head(kcall).sem IN
       \/ semaphore[s] = 1 /\ s_procq[s] # <<>> /\ Wake(s)
       \/ semaphore[s] = 1 /\ s_procq[s] = <<>> /\ Count(s, -1)
       \/ semaphore[s] # 1 /\ Block(s)
  /\ UNCHANGED <<p_parent, p_child, g_process_count, ioVars,
                 g_soft_block_count, g_old_state>>

sysVerhogen ==
  /\ Running("sysVerhogen")
  /\ LET s == Head(kcall).sem IN
       \/ semaphore[s] = 0 /\ s_procq[s] # <<>> /\ Wake(s)
       \/ semaphore[s] = 0 /\ s_procq[s] = <<>> /\ Count(s, 1)
       \/ semaphore[s] # 0 /\ Block(s)
  /\ UNCHANGED <<p_parent, p_child, g_process_count, ioVars,
                 g_soft_block_count, g_old_state>>

-----------------------------------------------------------------------------
(* Device I/O (phase2/devices.c) *)

(* The command of process is written to the device and whoever is the      *)
(* current process waits on the device's sync semaphore.                   *)
beginIO ==
  /\ Running("beginIO")
  /\ LET d == Head(kcall).dev IN
       /\ waiting_process' = [waiting_process EXCEPT ![d] = Head(kcall).pcb]
       /\ device' = [device EXCEPT ![d] = "busy"]
       /\ kcall' = <<CallPasseren(sync(d))>> \o Tail(kcall)
  /\ g_soft_block_count' = g_soft_block_count + 1
  /\ UNCHANGED <<procVars, queueVars, p_s, semaphore, g_current_process,
                 g_old_state, cpu>>

(* Mutant: the mutex is released although the device is passed on.         *)
passTheBatonReleased(d) ==
  /\ s_procq[mut(d)] # <<>>
  /\ removeBlocked(mut(d))
  /\ semaphore' = [semaphore EXCEPT ![mut(d)] = @ + 1]
  /\ kcall' = <<CallBeginIO(d, Head(s_procq[mut(d)]))>> \o Tail(kcall)
  /\ UNCHANGED waiting_process

(* The rest of handleDeviceInt, after sysVerhogen: the device goes to the  *)
(* next process that waits for its mutex, or the mutex is released.        *)
passTheBaton(d) ==
  /\ s_procq[mut(d)] # <<>>
  /\ removeBlocked(mut(d))
  /\ kcall' = <<CallBeginIO(d, Head(s_procq[mut(d)]))>> \o Tail(kcall)
  /\ UNCHANGED <<waiting_process, semaphore>>

(* Mutant: the waiting process is not reset.                               *)
leaveDeviceOccupied(d) ==
  /\ s_procq[mut(d)] = <<>>
  /\ semaphore' = [semaphore EXCEPT ![mut(d)] = @ + 1]
  /\ Return
  /\ UNCHANGED <<s_procq, p_semAdd, waiting_process>>

leaveDevice(d) ==
  /\ s_procq[mut(d)] = <<>>
  /\ waiting_process' = [waiting_process EXCEPT ![d] = NULL]
  /\ semaphore' = [semaphore EXCEPT ![mut(d)] = @ + 1]
  /\ Return
  /\ UNCHANGED <<s_procq, p_semAdd>>

releaseDevice ==
  /\ Running("releaseDevice")
  /\ passTheBaton(Head(kcall).dev) \/ leaveDevice(Head(kcall).dev)
  /\ UNCHANGED <<procVars, g_ready_queue, device, p_s, g_soft_block_count,
                 g_current_process, g_old_state, cpu>>

-----------------------------------------------------------------------------
(* Termination (phase2/syscall.c, terminateProcess): a process is taken    *)
(* off the semaphore it is blocked on, its children are terminated, then   *)
(* its PCB is freed.                                                       *)

outBlocked(p) ==
  /\ s_procq' = [s_procq EXCEPT ![p_semAdd[p]] = RemoveFirst(@, p)]
  /\ p_semAdd' = [p_semAdd EXCEPT ![p] = NULL]

isDeviceSemaphore(s) == s[1] \in {"mut", "sync"}
resolveSemAddr(s) == s[2]

terminateProcess ==
  /\ Running("terminateProcess")
  /\ LET p == Head(kcall).pcb
         s == p_semAdd[p]
         inIO == s # NULL /\ isDeviceSemaphore(s) /\ waiting_process[resolveSemAddr(s)] = p
     IN  /\ kcall' = <<CallTerminateChildren(p)>> \o Tail(kcall)
         /\ IF s = NULL
            THEN UNCHANGED <<s_procq, p_semAdd>>
            ELSE outBlocked(p)
         /\ IF inIO
            THEN /\ g_soft_block_count' = g_soft_block_count - 1
                 /\ semaphore' = [semaphore EXCEPT ![sync(resolveSemAddr(s))] = -1]
            ELSE UNCHANGED <<g_soft_block_count, semaphore>>
  /\ UNCHANGED <<procVars, g_ready_queue, ioVars, p_s, g_current_process,
                 g_old_state, cpu>>

(* removeChild takes the oldest child; any order is allowed here.          *)
terminateNext(p) ==
  \E c \in p_child[p] :
    /\ p_child' = [p_child EXCEPT ![p] = @ \ {c}]
    /\ kcall' = <<CallTerminateProcess(c)>> \o kcall
    /\ UNCHANGED <<pcbFree_h, g_ready_queue, g_process_count>>

(* Mutant: freePcb forgets the queue the PCB is in.                        *)
freePcbStillQueued(p) ==
  /\ pcbFree_h' = pcbFree_h \cup {p}
  /\ UNCHANGED g_ready_queue

(* freePcb unlinks the PCB from the list it is in, which can only be the   *)
(* ready queue.                                                            *)
freePcb(p) ==
  /\ g_ready_queue' = RemoveFirst(g_ready_queue, p)
  /\ pcbFree_h' = pcbFree_h \cup {p}

(* Mutants: the children are forgotten, or the process is not counted.     *)
terminatedAlone(p) ==
  /\ g_process_count' = g_process_count - 1
  /\ freePcb(p)
  /\ Return
  /\ UNCHANGED p_child

terminatedUncounted(p) ==
  /\ p_child[p] = {}
  /\ freePcb(p)
  /\ Return
  /\ UNCHANGED <<p_child, g_process_count>>

terminated(p) ==
  /\ p_child[p] = {}
  /\ g_process_count' = g_process_count - 1
  /\ freePcb(p)
  /\ Return
  /\ UNCHANGED p_child

terminateChildren ==
  /\ Running("terminateChildren")
  /\ terminateNext(Head(kcall).pcb) \/ terminated(Head(kcall).pcb)
  /\ UNCHANGED <<p_parent, s_procq, p_semAdd, ioVars, p_s, semaphore,
                 g_soft_block_count, g_current_process, g_old_state, cpu>>

-----------------------------------------------------------------------------
(* The scheduler (phase2/scheduler.c) *)

schedUnchanged ==
  UNCHANGED <<procVars, s_procq, p_semAdd, ioVars, semaphore, g_soft_block_count>>

(* LDST of the next process.  The state saved by the last exception is     *)
(* dead from here on, and so is that of a process; that of a PCB which     *)
(* resumes the idle loop tells it from a process.                          *)
dispatch ==
  /\ Running("scheduler")
  /\ g_ready_queue # <<>>
  /\ LET p == Head(g_ready_queue) IN
       /\ g_current_process' = p
       /\ cpu' = p_s[p].at
       /\ p_s' = IF p_s[p].at = "user" THEN [p_s EXCEPT ![p] = NoContext] ELSE p_s
  /\ g_ready_queue' = Tail(g_ready_queue)
  /\ kcall' = <<>>
  /\ g_old_state' = NoContext
  /\ schedUnchanged

(* Nothing to run: stop, or wait for an interrupt, unless one of the local *)
(* timer is pending (timerInIdle).  With a negative count no branch of the *)
(* loop applies and it spins with interrupts masked.                       *)
idle ==
  /\ Running("scheduler")
  /\ g_ready_queue = <<>>
  /\ cpu' = CASE g_process_count = 0 -> "halt"
              [] g_process_count > 0 /\ g_soft_block_count > 0 -> "enabled"
              [] g_process_count > 0 /\ g_soft_block_count = 0 -> "panic"
              [] OTHER -> "spin"
  /\ kcall' = <<>>
  /\ g_old_state' = NoContext
  /\ UNCHANGED <<g_ready_queue, g_current_process, p_s>>
  /\ schedUnchanged

(* The second look at the ready queue, with interrupts enabled.            *)
recheck ==
  /\ cpu = "enabled"
  /\ IF g_ready_queue # <<>>
     THEN cpu' = "kernel" /\ kcall' = <<CallScheduler>>
     ELSE cpu' = "checked" /\ UNCHANGED kcall
  /\ UNCHANGED <<g_ready_queue, g_current_process, p_s, g_old_state>>
  /\ schedUnchanged

WAIT ==
  /\ cpu = "checked"
  /\ cpu' = "waiting"
  /\ UNCHANGED <<g_ready_queue, g_current_process, p_s, g_old_state, kcall>>
  /\ schedUnchanged

wakeUp ==
  /\ cpu = "woken"
  /\ cpu' = "kernel"
  /\ kcall' = <<CallScheduler>>
  /\ UNCHANGED <<g_ready_queue, g_current_process, p_s, g_old_state>>
  /\ schedUnchanged

(* The end of syscallHandler and of interruptHandler: LDST(g_old_state).   *)
(* An interrupt ends WAIT.                                                 *)
Resume(at) == IF at = "waiting" THEN "woken" ELSE at

LDST ==
  /\ cpu = "kernel"
  /\ kcall = <<>>
  /\ cpu' = Resume(g_old_state.at)
  /\ g_old_state' = NoContext
  /\ UNCHANGED <<g_ready_queue, g_current_process, p_s, kcall>>
  /\ schedUnchanged

KernelStep ==
  \/ sysPasseren \/ sysVerhogen \/ beginIO \/ releaseDevice
  \/ terminateProcess \/ terminateChildren
  \/ dispatch \/ idle \/ recheck \/ WAIT \/ wakeUp \/ LDST

-----------------------------------------------------------------------------
(* System calls of the running process (phase2/syscall.c, syscallHandler) *)

Syscall(name, frames) ==
  /\ cpu = "user"
  /\ cpu' = "kernel"
  /\ kcall' = frames
  /\ g_old_state' = [NoContext EXCEPT !.call = name]
  /\ UNCHANGED <<queueVars, ioVars, p_s, semaphore, g_current_process,
                 pcbFree_h, p_parent, g_process_count>>

(* allocPcb takes the head of the free list and resets it; any free PCB is *)
(* allowed here.                                                           *)
allocPcb(p) ==
  /\ pcbFree_h' = pcbFree_h \ {p}
  /\ p_semAdd' = [p_semAdd EXCEPT ![p] = NULL]
  /\ p_s' = [p_s EXCEPT ![p] = NoContext]

(* A new process becomes the youngest child of parent; it has none itself. *)
insertChild(parent, p) ==
  /\ p_parent' = [p_parent EXCEPT ![p] = parent]
  /\ p_child' = [[p_child EXCEPT ![p] = {}] EXCEPT ![parent] = @ \cup {p}]

(* When no PCB is free the call returns -1 and changes nothing.            *)
sysCreateProcess ==
  /\ cpu = "user"
  /\ \E p \in pcbFree_h :
       /\ allocPcb(p)
       /\ insertChild(g_current_process, p)
       /\ g_ready_queue' = Append(g_ready_queue, p)
  /\ g_process_count' = g_process_count + 1
  /\ UNCHANGED <<s_procq, ioVars, semaphore, g_soft_block_count,
                 g_current_process, g_old_state, cpu, kcall>>

(* The processes of the tree rooted at p.                                  *)
Subtree(p) ==
  {q \in Pcb : \A S \in SUBSET Pcb :
                 (p \in S /\ \A r \in S : p_child[r] \subseteq S) => q \in S}

MayTerminate(p) ==
  /\ "TERM_OTHER" \in Client \/ g_current_process \in Subtree(p) \/ p \in pcbFree_h
  /\ "TERM_IN_IO" \in Client \/ \A d \in Dev : waiting_process[d] \notin Subtree(p)
  /\ g_soft_block_count > -MaxSoft /\ g_process_count > -MaxSoft

(* Mutant: the process stays among the children of its parent.             *)
outChildForgotten(p) == p_child

(* The tree without p among the children of its parent.                    *)
outChild(p) ==
  IF p_parent[p] = NULL THEN p_child
                        ELSE [p_child EXCEPT ![p_parent[p]] = @ \ {p}]

(* Mutant: the call returns instead of calling the scheduler.              *)
sysTerminateProcessReturns(p) ==
  /\ Syscall("none", <<CallTerminateProcess(p)>>)
  /\ p_child' = outChild(p)
  /\ UNCHANGED g_soft_block_count

sysTerminateProcess(p) ==
  /\ Syscall("none", <<CallTerminateProcess(p), CallScheduler>>)
  /\ p_child' = outChild(p)
  /\ UNCHANGED g_soft_block_count

(* A pid is a pointer, and nobody checks that its PCB is in use.  A free   *)
(* PCB that has been a process still has its p_parent.                     *)
Ended == {p \in pcbFree_h : p_parent[p] # NULL}

SYSCALL_TERMPROCESS ==
  \E p \in (Pcb \ pcbFree_h) \cup {q \in Ended : "STALE_PID" \in Client} :
    MayTerminate(p) /\ sysTerminateProcess(p)

(* A program trap of a process without support structure.  With one, the   *)
(* exception is passed up and nothing modelled here changes.               *)
passUpOrDie ==
  cpu = "user" /\ MayTerminate(g_current_process)
               /\ sysTerminateProcess(g_current_process)

SYSCALL_PASSEREN ==
  /\ \E s \in {"user"} \X Sem : Syscall("PASSEREN", <<CallPasseren(s)>>)
  /\ UNCHANGED <<p_child, g_soft_block_count>>

SYSCALL_VERHOGEN ==
  /\ \E s \in {"user"} \X Sem : Syscall("VERHOGEN", <<CallVerhogen(s)>>)
  /\ UNCHANGED <<p_child, g_soft_block_count>>

(* Mutant: the device is used without its mutex.                           *)
sysDoIOUnlocked ==
  /\ \E d \in Dev : Syscall("DOIO", <<CallBeginIO(d, g_current_process)>>)
  /\ UNCHANGED <<p_child, g_soft_block_count>>

sysDoIO ==
  /\ \E d \in Dev :
       /\ "SHARE_DEVICE" \in Client \/ semaphore[mut(d)] = 1
       /\ Syscall("DOIO", <<CallPasseren(mut(d)), CallBeginIO(d, g_current_process)>>)
  /\ UNCHANGED <<p_child, g_soft_block_count>>

(* DOIO on an address no device has: PANIC.                                *)
sysDoIOPanic ==
  /\ "BAD_ADDRESS" \in Client
  /\ cpu = "user"
  /\ cpu' = "panic"
  /\ UNCHANGED <<procVars, queueVars, ioVars, p_s, semaphore,
                 g_soft_block_count, g_current_process, g_old_state, kcall>>

(* Mutant: the process that waits for the clock is not counted.            *)
sysClockWaitUncounted ==
  /\ Syscall("CLOCKWAIT", <<CallPasseren(g_pseudo_clock)>>)
  /\ UNCHANGED <<p_child, g_soft_block_count>>

sysClockWait ==
  /\ g_soft_block_count < MaxSoft
  /\ Syscall("CLOCKWAIT", <<CallPasseren(g_pseudo_clock)>>)
  /\ g_soft_block_count' = g_soft_block_count + 1
  /\ UNCHANGED p_child

UserStep ==
  \/ sysCreateProcess \/ SYSCALL_TERMPROCESS \/ passUpOrDie
  \/ SYSCALL_PASSEREN \/ SYSCALL_VERHOGEN
  \/ sysDoIO \/ sysDoIOPanic \/ sysClockWait

-----------------------------------------------------------------------------
(* Interrupts (phase2/exceptions.c, interruptHandler).  Simultaneous       *)
(* interrupts are taken one after the other, in any order.                 *)

(* Mutant: the preempted process goes to the front of the queue.           *)
timerInUserInFront ==
  /\ cpu = "user"
  /\ cpu' = "kernel"
  /\ p_s' = [p_s EXCEPT ![g_current_process] = [NoContext EXCEPT !.call = "INT"]]
  /\ g_ready_queue' = <<g_current_process>> \o g_ready_queue
  /\ g_current_process' = NULL
  /\ kcall' = <<CallScheduler>>
  /\ g_old_state' = [NoContext EXCEPT !.call = "INT"]
  /\ schedUnchanged

(* handleLocalTimer for a process: the end of its time slice.              *)
timerInUser ==
  /\ cpu = "user"
  /\ cpu' = "kernel"
  /\ p_s' = [p_s EXCEPT ![g_current_process] = [NoContext EXCEPT !.call = "INT"]]
  /\ g_ready_queue' = Append(g_ready_queue, g_current_process)
  /\ g_current_process' = NULL
  /\ kcall' = <<CallScheduler>>
  /\ g_old_state' = [NoContext EXCEPT !.call = "INT"]
  /\ schedUnchanged

(* The local timer runs on in the kernel.  When the slice ends there, the  *)
(* interrupt is pending until dispatch loads the timer again (setTIMER).   *)
(* If there is nothing to dispatch, the setSTATUS of the idle loop stops   *)
(* the timer but unmasks its interrupt, which is taken at once and before  *)
(* all others.                                                             *)
idleLoop == [NoContext EXCEPT !.at = "enabled", !.call = "TIMER"]

(* Once taken there it does not come again for the PCB that was current:   *)
(* scheduler() was then called with the timer off, and stays in that       *)
(* status until it dispatches a process.                                   *)
SliceMayHaveEnded ==
  g_current_process # NULL => p_s[g_current_process].call # "TIMER"

(* Without a current process the handler copies the saved state through a  *)
(* null pointer.                                                           *)
timerWithoutCurrent ==
  /\ g_current_process = NULL
  /\ cpu' = "timerfault"
  /\ kcall' = <<>>
  /\ UNCHANGED <<pcbFree_h, p_s, g_ready_queue, g_current_process>>

(* After SYS2 the current process is a freed PCB: insertProcQ takes it off *)
(* the free list, and it will be dispatched with the context of the idle   *)
(* loop.                                                                   *)
timerRevives ==
  /\ g_current_process # NULL
  /\ p_s' = [p_s EXCEPT ![g_current_process] = idleLoop]
  /\ pcbFree_h' = pcbFree_h \ {g_current_process}
  /\ g_ready_queue' = <<g_current_process>>
  /\ g_current_process' = NULL
  /\ kcall' = <<CallScheduler>>
  /\ UNCHANGED cpu

(* handleLocalTimer in the idle loop.                                      *)
timerInIdle ==
  /\ Running("scheduler")
  /\ g_ready_queue = <<>>
  /\ g_process_count > 0 /\ g_soft_block_count > 0
  /\ SliceMayHaveEnded
  /\ timerWithoutCurrent \/ timerRevives
  /\ g_old_state' = idleLoop
  /\ UNCHANGED <<p_parent, p_child, g_process_count, s_procq, p_semAdd, ioVars,
                 semaphore, g_soft_block_count>>

handleLocalTimer == timerInUser \/ timerInIdle

(* Mutant: the processes leave the clock's queue for no other.             *)
handleSysTimerForgets ==
  /\ cpu \in Interruptible
  /\ cpu' = Resume(cpu)
  /\ LET q == s_procq[g_pseudo_clock] IN
       /\ s_procq' = [s_procq EXCEPT ![g_pseudo_clock] = <<>>]
       /\ p_semAdd' = [p \in Pcb |-> IF p \in ToSet(q) THEN NULL ELSE p_semAdd[p]]
       /\ g_soft_block_count' = g_soft_block_count - Len(q)
  /\ semaphore' = [semaphore EXCEPT ![g_pseudo_clock] = 0]
  /\ UNCHANGED <<procVars, ioVars, p_s, g_ready_queue, g_current_process,
                 g_old_state, kcall>>

(* The pseudo-clock tick: every process in clock wait becomes ready.       *)
handleSysTimer ==
  /\ cpu \in Interruptible
  /\ cpu' = Resume(cpu)
  /\ LET q == s_procq[g_pseudo_clock] IN
       /\ g_ready_queue' = g_ready_queue \o q
       /\ s_procq' = [s_procq EXCEPT ![g_pseudo_clock] = <<>>]
       /\ p_semAdd' = [p \in Pcb |-> IF p \in ToSet(q) THEN NULL ELSE p_semAdd[p]]
       /\ g_soft_block_count' = g_soft_block_count - Len(q)
  /\ semaphore' = [semaphore EXCEPT ![g_pseudo_clock] = 0]
  /\ UNCHANGED <<procVars, ioVars, p_s, g_current_process, g_old_state, kcall>>

(* The status goes to the process that waits for the device.               *)
setReturnValue(d) == p_s' = [p_s EXCEPT ![waiting_process[d]].v0 = device[d]]

(* Mutants: the status is read after the acknowledgement, is not passed    *)
(* on, or the process is not signalled.                                    *)
endIOLate(d) ==
  /\ waiting_process[d] # NULL
  /\ p_s' = [p_s EXCEPT ![waiting_process[d]].v0 = "idle"]
  /\ g_soft_block_count' = g_soft_block_count - 1
  /\ cpu' = "kernel"
  /\ kcall' = <<CallVerhogen(sync(d)), CallReleaseDevice(d)>>

endIONoResult(d) ==
  /\ waiting_process[d] # NULL
  /\ g_soft_block_count' = g_soft_block_count - 1
  /\ cpu' = "kernel"
  /\ kcall' = <<CallVerhogen(sync(d)), CallReleaseDevice(d)>>
  /\ UNCHANGED p_s

endIONoSignal(d) ==
  /\ waiting_process[d] # NULL
  /\ setReturnValue(d)
  /\ g_soft_block_count' = g_soft_block_count - 1
  /\ cpu' = "kernel"
  /\ kcall' = <<CallReleaseDevice(d)>>

(* endIO and setReturnValue.  Without a process that waits for the device  *)
(* the kernel reads through a null pointer.                                *)
endIO(d) ==
  IF waiting_process[d] = NULL
  THEN /\ cpu' = "fault"
       /\ kcall' = <<>>
       /\ UNCHANGED <<p_s, g_soft_block_count>>
  ELSE /\ setReturnValue(d)
       /\ g_soft_block_count' = g_soft_block_count - 1
       /\ cpu' = "kernel"
       /\ kcall' = <<CallVerhogen(sync(d)), CallReleaseDevice(d)>>

handleDeviceInt(d) ==
  /\ cpu \in Interruptible
  /\ device[d] \in {"ok", "err"}
  /\ g_old_state' = [NoContext EXCEPT !.at = cpu, !.call = "INT"]
  /\ \/ semaphore[sync(d)] # -1 /\ endIO(d)
     \/ /\ semaphore[sync(d)] = -1
        /\ cpu' = "kernel"
        /\ kcall' = <<CallVerhogen(sync(d)), CallReleaseDevice(d)>>
        /\ UNCHANGED <<p_s, g_soft_block_count>>
  /\ device' = [device EXCEPT ![d] = "idle"]
  /\ UNCHANGED <<procVars, queueVars, waiting_process, semaphore, g_current_process>>

(* The device ends the operation it was given, with or without success.    *)
DeviceDone(d) ==
  /\ cpu \notin Stopped
  /\ device[d] = "busy"
  /\ device' \in {[device EXCEPT ![d] = r] : r \in {"ok", "err"}}
  /\ UNCHANGED <<procVars, queueVars, waiting_process, p_s, semaphore,
                 g_soft_block_count, g_current_process, g_old_state, cpu, kcall>>

InterruptStep ==
  handleLocalTimer \/ handleSysTimer \/ \E d \in Dev : handleDeviceInt(d)

(* HALT, PANIC, a fault in the kernel and the spinning scheduler are final. *)
Stop == cpu \in Stopped /\ UNCHANGED vars

Next ==
  \/ KernelStep
  \/ UserStep
  \/ InterruptStep
  \/ \E d \in Dev : DeviceDone(d)
  \/ Stop

Spec == Init /\ [][Next]_vars

(* The local timer is loaded by every dispatch and runs on in system calls: *)
(* when user code is executed again and again and no process is dispatched *)
(* any more, the time slice ends.  It need not end for processes that      *)
(* always give the processor up earlier.                                   *)
TimeSliceEnds ==
  \/ []<><<dispatch>>_vars
  \/ <>[](cpu # "user")
  \/ []<><<timerInUser>>_vars

(* Fairness.  The kernel does not stop in the middle of its code.  A clock *)
(* or device interrupt stays pending until it is taken, so it is taken     *)
(* when interrupts are enabled again and again: strong fairness.  A device *)
(* ends what it was asked to do.  Nothing is assumed of user programs.     *)
Fairness ==
  /\ WF_vars(KernelStep)
  /\ TimeSliceEnds
  /\ SF_vars(handleSysTimer)
  /\ \A d \in Dev : SF_vars(handleDeviceInt(d)) /\ WF_vars(DeviceDone(d))

FairSpec == Spec /\ Fairness

-----------------------------------------------------------------------------
(* Derived state *)

Live == Pcb \ pcbFree_h

(* The processes that were created and not terminated.  A PCB off the free *)
(* list that holds the context of the idle loop is none: see timerRevives. *)
Processes == {p \in Live : p_s[p].at = "user"}

Ready == ToSet(g_ready_queue)
Blocked == {p \in Pcb : p_semAdd[p] # NULL}
Dying == {p \in Pcb : \E f \in ToSet(kcall) :
            f.fn \in {"terminateProcess", "terminateChildren"} /\ f.pcb = p}
SoftBlocked == {p \in Pcb : p_semAdd[p] # NULL /\ p_semAdd[p][1] \in {"sync", "clock"}}

-----------------------------------------------------------------------------
(* Properties that hold whatever the clients do *)

(* DOCUMENTATION.md requires the lists threaded through p_list to be       *)
(* mutually exclusive: no PCB is twice in the ready queue or in a          *)
(* semaphore's queue, the free, ready and blocked PCBs are disjoint, and   *)
(* the current process is in no queue.                                     *)
ListsExclusive ==
  /\ IsInjective(g_ready_queue)
  /\ \A s \in SemAddr : IsInjective(s_procq[s])
  /\ Ready \cap (pcbFree_h \cup Blocked) = {}
  /\ pcbFree_h \cap Blocked = {}
  /\ g_current_process \notin Ready \cup Blocked

(* p_semAdd, on which outBlocked relies, names the queue a process is in.  *)
SemAddMatchesQueue ==
  \A p \in Pcb, s \in SemAddr : p_semAdd[p] = s <=> p \in ToSet(s_procq[s])

(* Nobody checks insertBlocked's result, so a process that blocks when all *)
(* SEMDs are in use would be lost.  MAX_PROC of them are always enough.    *)
SemdNeverExhausted ==
  g_current_process # NULL => \A s \in SemAddr : SemdAvailable(s)

(* beginIO never overwrites the command of an operation in progress: the   *)
(* device it writes to is idle.                                            *)
CommandOnlyToIdleDevice ==
  Running("beginIO") => device[Head(kcall).dev] = "idle"

-----------------------------------------------------------------------------
(* Properties of clients that follow the discipline (Client = {}) *)

(* A process that was created and not terminated is running, ready or      *)
(* blocked, or is just being terminated: the kernel never loses one.       *)
NoProcessLost ==
  Processes \subseteq {g_current_process} \cup Ready \cup Blocked \cup Dying

(* g_process_count is the number of processes, also half way through the   *)
(* termination of a tree and when the local timer takes a PCB off the free *)
(* list.                                                                   *)
ProcessCountExact == g_process_count = Cardinality(Processes)

(* Termination takes the whole tree: outside of it no process is left with *)
(* a freed parent, and the links of the tree agree with each other.  Only  *)
(* the parent of a PCB that the timer took off the free list is stale.     *)
NoOrphans ==
  Dying = {} =>
    \A p \in Live :
      /\ p \in Processes /\ p_parent[p] # NULL
           => p_parent[p] \in Live /\ p \in p_child[p_parent[p]]
      /\ \A c \in p_child[p] : c \in Live /\ p_parent[c] = p

(* A process waits because of a call it made itself, and the value of the  *)
(* semaphore justifies it: P waits on 0 and V on 1, so the two never share *)
(* a queue; a DOIO caller on a sync semaphore is the one the device works  *)
(* for.                                                                    *)
WaitersExplained ==
  \A p \in Blocked :
    LET s == p_semAdd[p] IN
      \/ p_s[p].call = "PASSEREN" /\ s[1] = "user" /\ semaphore[s] = 0
      \/ p_s[p].call = "VERHOGEN" /\ s[1] = "user" /\ semaphore[s] = 1
      \/ p_s[p].call = "CLOCKWAIT" /\ s = g_pseudo_clock /\ semaphore[s] = 0
      \/ /\ p_s[p].call = "DOIO" /\ s[1] = "sync" /\ semaphore[s] = 0
         /\ waiting_process[s[2]] = p

(* The three pieces of state that say a device is in use agree whenever    *)
(* the kernel is not in the middle of an operation: its registers, its     *)
(* mutex and the process that waits for it, blocked on the sync semaphore. *)
IoStateConsistent ==
  kcall = <<>> /\ cpu \notin Stopped =>
    \A d \in Dev :
      \/ /\ device[d] = "idle" /\ waiting_process[d] = NULL
         /\ semaphore[mut(d)] = 1
      \/ /\ device[d] # "idle" /\ waiting_process[d] # NULL
         /\ p_semAdd[waiting_process[d]] = sync(d)
         /\ semaphore[mut(d)] = 0

(* A process that comes back from DOIO carries the device's status in v0:  *)
(* it never resumes before its operation has ended.                        *)
IoResultDelivered ==
  \A p \in Ready : p_s[p].call = "DOIO" => p_s[p].v0 \in {"ok", "err"}

(* The machine stops only when there is nothing left to do: HALT with no   *)
(* process left, PANIC when every process waits for another one.  A device *)
(* or clock waiter keeps it alive, and the kernel never spins; its only    *)
(* fault is that of a time slice that ends while the last process that can *)
(* run is being blocked, see timerInIdle.                                  *)
StopsOnlyWhenStuck ==
  cpu \in Stopped =>
    \/ cpu = "halt" /\ Processes = {}
    \/ cpu = "panic" /\ \A p \in Processes : p_semAdd[p] \in {"user"} \X Sem
    \/ /\ cpu = "timerfault" /\ g_current_process = NULL
       /\ g_ready_queue = <<>> /\ g_soft_block_count > 0

(* The nucleus implements the abstract life cycle of processes: one that   *)
(* has ended is never scheduled again, although its PCB may be.            *)
life == INSTANCE ProcLife WITH
          ready <- IF Ready \subseteq Processes THEN g_ready_queue ELSE <<>>,
          running <- {g_current_process} \cap Processes,
          blocked <- Blocked,
          dying <- Dying
LifeCycle == life!LifeSpec

-----------------------------------------------------------------------------
(* Liveness *)

(* Round robin: a ready process eventually runs or is terminated, whatever *)
(* the other processes do.                                                 *)
ReadyRuns ==
  \A p \in Pcb : (p \in Ready) ~> (p = g_current_process \/ p \in pcbFree_h)

(* A process in clock wait is ready again, or terminated, after a tick,    *)
(* unless the kernel faults when a slice ends in the idle loop.            *)
ClockWaitEnds ==
  \A p \in Pcb :
    (p_semAdd[p] = g_pseudo_clock)
      ~> (p \in Ready \/ p \in pcbFree_h \/ cpu = "timerfault")

(* A process that waits for a device is ready again, with the same         *)
(* exception.  This includes the interrupt that arrives between the idle   *)
(* loop's second look at the ready queue and WAIT.                         *)
IoEnds ==
  \A d \in Dev, p \in Pcb :
    (p_semAdd[p] = sync(d)) ~> (p \in Ready \/ cpu = "timerfault")

-----------------------------------------------------------------------------
(* What comments and documentation say, and the code does not do *)

(* "Blocca il processo invocante fino al prossimo tick": CLOCKWAIT never   *)
(* returns to its caller without blocking.                                 *)
ClockWaitBlocks ==
  ~ (cpu = "kernel" /\ kcall = <<>> /\ g_old_state.call = "CLOCKWAIT")

(* g_soft_block_count is the number of processes blocked on I/O or timer.  *)
(* The one it may be ahead is the first CLOCKWAIT, see ClockWaitBlocks.    *)
SoftBlockCountBounded ==
  kcall = <<>> => g_soft_block_count <= Cardinality(SoftBlocked) + 1

(* A sem_sync of -1 goes back to 0 at the interrupt of the operation whose *)
(* process was terminated, so with the device idle it is not -1.           *)
SyncBackToZero ==
  kcall = <<>> /\ cpu \notin Stopped =>
    \A d \in Dev : device[d] = "idle" => semaphore[sync(d)] = 0

(* "Se non ho nessun processo che sta runnando allora lo metto a NULL."    *)
IdleHasNoCurrent == cpu \in IdlePoint => g_current_process = NULL

(* "disable the Process Local Timer": in the idle loop no slice ends, and  *)
(* the kernel does not handle one without a process.                       *)
IdleTimerDisabled == cpu # "timerfault"

(* "A process can be either in the ready, running, or blocked state": so   *)
(* is every PCB off the free list, and none is leaked.                     *)
NoPcbLeaked ==
  Live \subseteq {g_current_process} \cup Ready \cup Blocked \cup Dying

-----------------------------------------------------------------------------
(* The inductive invariant behind ListsExclusive, SemAddMatchesQueue and   *)
(* SemdNeverExhausted *)

EndsInScheduler == kcall # <<>> /\ kcall[Len(kcall)] = CallScheduler

(* A process whose children are being terminated has left its semaphore.   *)
OffSemaphore ==
  \A f \in ToSet(kcall) : f.fn = "terminateChildren" => p_semAdd[f.pcb] = NULL

(* The code that terminates processes ends in the scheduler, it does not   *)
(* return to the process that called it, which may be gone.                *)
TerminationEndsInScheduler ==
  \A f \in ToSet(kcall) :
    f.fn \in {"terminateProcess", "terminateChildren"} => EndsInScheduler

(* The process to which the processor will return is there.                *)
CurrentIsLive ==
  (\/ cpu = "user"
   \/ cpu = "kernel" /\ g_old_state.at = "user" /\ ~ EndsInScheduler)
    => g_current_process \in Processes

IInv ==
  /\ TypeOK
  /\ ListsExclusive
  /\ SemAddMatchesQueue
  /\ OffSemaphore
  /\ TerminationEndsInScheduler
  /\ CurrentIsLive
=============================================================================
