------------------------------- MODULE CpuTime -----------------------------
(***************************************************************************)
(* Processor time: g_tod, p_time and SYS6 (src/phase2/exceptions.c,        *)
(* scheduler.c, syscall.c).  Time passes between any two steps of the      *)
(* kernel and of the programs.  Of the handlers only the order in which    *)
(* they read the clock and change the current process is kept; which       *)
(* system call blocks and whom an interrupt wakes is left open, module     *)
(* Nucleus says which.  Readings that follow each other with no call in    *)
(* between (exceptions.c:131 and 133) are one reading.                     *)
(***************************************************************************)
EXTENDS Integers

CONSTANTS
  Pcb, NULL,
  WRAP     \* the clock and p_time are numbers modulo WRAP (2^32)

ASSUME PcbAssumption == NULL \notin Pcb
ASSUME WrapAssumption == WRAP \in Nat \ {0}

VARIABLES
  tod,                \* the time of day clock (hardware)
  g_tod, p_time, g_current_process,
  ready, blocked,     \* the processes besides the current one
  at,                 \* what the processor executes
  paid,               \* the time of each process by the rules of DOCUMENTATION.md
  caught              \* the processes that an interrupt has blocked

procVars == <<g_current_process, ready, blocked>>
vars == <<tod, g_tod, p_time, procVars, at, paid, caught>>

(* "idle" is the scheduler's loop with interrupts enabled.                 *)
Place == {"user", "syscall", "interrupt", "scheduler", "idle", "idleInterrupt"}

(* "Abbiamo deciso di far pagare il tempo delle syscalls ai processi,      *)
(* mentre gli interrupt non sono pagati": nor is the scheduler.            *)
OnBehalf == at \in {"user", "syscall"}

Live == ready \cup blocked \cup (IF at \in {"user", "syscall", "interrupt"}
                                 THEN {g_current_process} ELSE {})

-----------------------------------------------------------------------------
(* Mutant: the difference is taken without regard to the wrap-around.      *)
getPassedTimeNoWrap == IF tod >= g_tod THEN tod - g_tod ELSE 0

getPassedTime == (tod - g_tod) % WRAP

updateProcessTime ==
  /\ p_time' = IF g_current_process = NULL THEN p_time
               ELSE [p_time EXCEPT ![g_current_process] = (@ + getPassedTime) % WRAP]
  /\ g_tod' = tod

sysGetTime == (p_time[g_current_process] + getPassedTime) % WRAP

(* A tick of the clock.                                                    *)
Tick ==
  /\ tod' = (tod + 1) % WRAP
  /\ paid' = IF OnBehalf THEN [paid EXCEPT ![g_current_process] = (@ + 1) % WRAP] ELSE paid
  /\ UNCHANGED <<g_tod, p_time, procVars, at, caught>>

(* An exception that is no interrupt: a system call or a trap.             *)
EXC_SYS ==
  /\ at = "user" /\ at' = "syscall"
  /\ UNCHANGED <<tod, g_tod, p_time, procVars, paid, caught>>

(* The end of a call that does not block, and pass up.                     *)
sysReturn ==
  /\ at = "syscall" /\ at' = "user"
  /\ UNCHANGED <<tod, g_tod, p_time, procVars, paid, caught>>

(* allocPcb has zeroed the PCB.                                            *)
sysCreateProcess ==
  /\ at = "syscall"
  /\ \E p \in Pcb \ Live :
       /\ ready' = ready \cup {p}
       /\ p_time' = [p_time EXCEPT ![p] = 0]
       /\ paid' = [paid EXCEPT ![p] = 0]
       /\ caught' = caught \ {p}
  /\ UNCHANGED <<tod, g_tod, g_current_process, blocked, at>>

(* The end of sysPasseren and sysVerhogen when they block.                 *)
Block ==
  /\ updateProcessTime
  /\ blocked' = blocked \cup {g_current_process}
  /\ g_current_process' = NULL
  /\ at' = "scheduler"
  /\ UNCHANGED <<tod, paid, ready>>

sysBlock == at = "syscall" /\ Block /\ UNCHANGED caught

(* SYS2 of the current process or an ancestor, with all below it;          *)
(* g_current_process stays.                                                *)
sysTerminateProcess ==
  /\ at = "syscall"
  /\ \E rest \in SUBSET (ready \cup blocked) :
       ready' = ready \cap rest /\ blocked' = blocked \cap rest
  /\ at' = "scheduler"
  /\ UNCHANGED <<tod, g_tod, p_time, g_current_process, paid, caught>>

(* removeProcQ, STCK(g_tod) and LDST.                                      *)
dispatch ==
  /\ at = "scheduler"
  /\ \E p \in ready : g_current_process' = p /\ ready' = ready \ {p}
  /\ g_tod' = tod
  /\ at' = "user"
  /\ UNCHANGED <<tod, p_time, blocked, paid, caught>>

idle ==
  /\ at = "scheduler" /\ ready = {} /\ at' = "idle"
  /\ UNCHANGED <<tod, g_tod, p_time, procVars, paid, caught>>

leaveIdle ==
  /\ at = "idle" /\ at' = "scheduler"
  /\ UNCHANGED <<tod, g_tod, p_time, procVars, paid, caught>>

(* In the idle loop after SYS2 the time goes to the freed PCB.             *)
EXC_INT ==
  /\ \/ at = "user" /\ at' = "interrupt"
     \/ at = "idle" /\ at' = "idleInterrupt"
  /\ updateProcessTime
  /\ UNCHANGED <<tod, procVars, paid, caught>>

timerInUser ==
  /\ at = "interrupt" /\ at' = "scheduler"
  /\ ready' = ready \cup {g_current_process}
  /\ g_current_process' = NULL
  /\ UNCHANGED <<tod, g_tod, p_time, blocked, paid, caught>>

(* A slice that ended in the kernel, taken in the idle loop.  Without a    *)
(* current process the machine stops here.  The freed PCB that SYS2 has    *)
(* left is the only one in the ready queue: scheduler() dispatches it, and *)
(* its LDST is back in the idle loop.                                      *)
timerInIdle ==
  /\ at = "idleInterrupt" /\ at' = "idle"
  /\ ready = {} /\ g_current_process # NULL
  /\ g_tod' = tod
  /\ UNCHANGED <<tod, p_time, procVars, paid, caught>>

handleLocalTimer == timerInUser \/ timerInIdle

(* The interval timer or a device wakes a process.                         *)
wake ==
  /\ at \in {"interrupt", "idleInterrupt"}
  /\ \E p \in blocked : ready' = ready \cup {p} /\ blocked' = blocked \ {p}
  /\ UNCHANGED <<tod, g_tod, p_time, g_current_process, at, paid, caught>>

(* A P or V of handleDeviceInt that blocks the interrupted process, which  *)
(* happens when two processes use one device (Nucleus: "SHARE_DEVICE"), or *)
(* in the idle loop the freed PCB that SYS2 has left ("TERM_IN_IO").       *)
blockInInterrupt ==
  /\ at \in {"interrupt", "idleInterrupt"} /\ g_current_process # NULL
  /\ Block
  /\ caught' = caught \cup {g_current_process}

(* The end of interruptHandler: STCK(g_tod), LDST.                         *)
interruptReturn ==
  /\ \/ at = "interrupt" /\ at' = "user"
     \/ at = "idleInterrupt" /\ at' = "idle"
  /\ g_tod' = tod
  /\ UNCHANGED <<tod, p_time, procVars, paid, caught>>

Init ==
  /\ tod \in 0 .. WRAP - 1
  /\ g_tod = 0
  /\ p_time = [p \in Pcb |-> 0]
  /\ paid = [p \in Pcb |-> 0]
  /\ g_current_process = NULL
  /\ \E root \in Pcb : ready = {root}
  /\ blocked = {}
  /\ at = "scheduler"
  /\ caught = {}

Next ==
  \/ Tick
  \/ EXC_SYS \/ sysReturn \/ sysCreateProcess \/ sysBlock \/ sysTerminateProcess
  \/ dispatch \/ idle \/ leaveIdle
  \/ EXC_INT \/ handleLocalTimer \/ wake \/ blockInInterrupt \/ interruptReturn

Spec == Init /\ [][Next]_vars

-----------------------------------------------------------------------------
Charged(p) ==
  paid[p] = IF OnBehalf /\ p = g_current_process THEN sysGetTime ELSE p_time[p]

(* A process is charged for its own instructions and its system calls, and *)
(* for nothing else: not for interrupts that hit it, the scheduler, the    *)
(* idle loop or the time before its dispatch, whatever the clock does      *)
(* between two readings.                                                   *)
ChargedExactly == \A p \in Live : Charged(p)

(* That holds of every process but those that a P or V of an interrupt     *)
(* handler has blocked: sysPasseren and sysVerhogen charge the current     *)
(* process without asking on whose behalf they run.                        *)
ChargedUnlessCaught == \A p \in Live \ caught : Charged(p)

=============================================================================
