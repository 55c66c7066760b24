----------------------------- MODULE Interrupts ----------------------------
(***************************************************************************)
(* From an interrupt to the device it is about: interruptHandler's choice  *)
(* of a line, findDevRegAddr's choice of a device and subdevice, the       *)
(* device number that selects the semaphores (phase2/exceptions.c,         *)
(* phase2/devices.c), and the acknowledgement that ends the interrupt.     *)
(* Register addresses are the ones of lib/pandos_const.h.                  *)
(***************************************************************************)
EXTENDS Integers, FiniteSetsExt

CONSTANTS
  Installed,  \* the devices, as pairs <<interrupt line, number on the line>>
  MayFail     \* the registers whose operations may end with an error status

LOCAL_INTLINE == 1
TIMER_INTLINE == 2
DISK_INTLINE == 3
FLASH_INTLINE == 4
PRINTER_INTLINE == 6
TERM_INTLINE == 7

DEVICE_NUMBER == 48
DEVREGSIZE == 16
DEVREG_START_ADDR == 268435540      \* 0x10000054
TERMREG_START_ADDR == 268436052     \* 0x10000254
TERMREG_END_ADDR == 268436068       \* 0x10000264
DEVADDR(line, i) == DEVREG_START_ADDR + (line - 3) * 128 + i * 16

(* The address of the first register of each device, or of each half of a  *)
(* terminal: receiver first, transmitter after it.                         *)
Receiver(i) == DEVADDR(TERM_INTLINE, i)
Transmitter(i) == DEVADDR(TERM_INTLINE, i) + 8
RegsOf(dev) ==
  IF dev[1] = TERM_INTLINE THEN {Receiver(dev[2]), Transmitter(dev[2])}
                           ELSE {DEVADDR(dev[1], dev[2])}
Reg == UNION {RegsOf(dev) : dev \in Installed}

ASSUME InstalledAssumption ==
  Installed \subseteq {DISK_INTLINE, FLASH_INTLINE, PRINTER_INTLINE, TERM_INTLINE} \X (0 .. 7)
ASSUME MayFailAssumption == MayFail \subseteq Reg

VARIABLES
  status,     \* the state of the operation of each register set
  timers,     \* the timer lines on which an interrupt is pending
  mode,       \* what the processor executes: a program or interruptHandler
  cause       \* the lines of g_old_state->cause not yet handled

vars == <<status, timers, mode, cause>>

Ended == {"done", "error"}

TypeOK ==
  /\ status \in [Reg -> {"idle", "busy"} \cup Ended]
  /\ timers \subseteq {LOCAL_INTLINE, TIMER_INTLINE}
  /\ mode \in {"user", "handler", "panic"}
  /\ cause \subseteq 1 .. 7

Init ==
  /\ status = [r \in Reg |-> "idle"]
  /\ timers = {}
  /\ mode = "user"
  /\ cause = {}

-----------------------------------------------------------------------------
(* The hardware *)

(* The devices with an interrupt pending: the bits set in INTDEV_BITMAP.   *)
PendingDev == {dev \in Installed : \E r \in RegsOf(dev) : status[r] \in Ended}
PendingLine == {dev[1] : dev \in PendingDev} \cup timers

EndOperation(r) ==
  /\ status[r] = "busy"
  /\ \/ status' = [status EXCEPT ![r] = "done"]
     \/ r \in MayFail /\ status' = [status EXCEPT ![r] = "error"]
  /\ UNCHANGED <<timers, mode, cause>>

(* A timer, reloaded by its handler, takes far longer than the processor   *)
(* needs to take an interrupt that is already pending.                     *)
TimerExpires(t) ==
  /\ t \notin timers
  /\ mode = "handler" \/ PendingLine = {}
  /\ timers' = timers \cup {t}
  /\ UNCHANGED <<status, mode, cause>>

-----------------------------------------------------------------------------
(* Device numbers *)

(* Mutant: both halves of a terminal have the same number.                 *)
resolveDeviceAddressWhole(addr) ==
  IF addr >= DEVREG_START_ADDR /\ addr < TERMREG_END_ADDR
  THEN (addr - DEVREG_START_ADDR) \div DEVREGSIZE ELSE -1

resolveDeviceAddress(addr) ==
  CASE addr >= DEVREG_START_ADDR /\ addr < TERMREG_START_ADDR ->
         (addr - DEVREG_START_ADDR) \div DEVREGSIZE
    [] addr >= TERMREG_START_ADDR /\ addr < TERMREG_END_ADDR ->
         (TERMREG_START_ADDR - DEVREG_START_ADDR) \div DEVREGSIZE
           + (addr - TERMREG_START_ADDR) \div (DEVREGSIZE \div 2)
    [] OTHER -> -1

isTermReg(addr) == addr >= TERMREG_START_ADDR /\ addr < TERMREG_END_ADDR

(* Mutant: terminals have no transmitter.                                  *)
findDevRegAddrReceiver(line) ==
  DEVADDR(line, Min({dev[2] : dev \in {x \in PendingDev : x[1] = line}}))

(* The lowest device of the line with an interrupt; of a terminal the      *)
(* transmitter if it has transmitted, otherwise the receiver.              *)
findDevRegAddr(line) ==
  LET i == Min({dev[2] : dev \in {x \in PendingDev : x[1] = line}})
      addr == DEVADDR(line, i)
  IN  IF isTermReg(addr) /\ status[Transmitter(i)] = "done"
      THEN Transmitter(i) ELSE addr

(* Mutants: ACK goes to the status register, or terminals are left out.    *)
ackDeviceStatus(addr) == status' = [status EXCEPT ![addr] = "ack"]

ackDeviceNoTerminal(addr) ==
  IF addr >= DEVREG_START_ADDR /\ addr < TERMREG_START_ADDR
  THEN status' = [status EXCEPT ![addr] = "idle"]
  ELSE UNCHANGED status

(* ackDevice writes ACK to the command register: the interrupt of that     *)
(* register set is over.  Addresses outside the known range are left alone. *)
ackDevice(addr) ==
  IF addr >= DEVREG_START_ADDR /\ addr < TERMREG_END_ADDR
  THEN status' = [status EXCEPT ![addr] = "idle"]
  ELSE UNCHANGED status

-----------------------------------------------------------------------------
(* DOIO of a program on a device that no other program uses.  A pending    *)
(* interrupt is taken before the processor executes another instruction of *)
(* the program.                                                            *)
sysDoIO(r) ==
  /\ mode = "user"
  /\ PendingLine = {}
  /\ IF resolveDeviceAddress(r) = -1
     THEN mode' = "panic" /\ UNCHANGED status
     ELSE /\ status[r] = "idle"
          /\ status' = [status EXCEPT ![r] = "busy"]
          /\ UNCHANGED mode
  /\ UNCHANGED <<timers, cause>>

-----------------------------------------------------------------------------
(* interruptHandler *)

exception ==
  /\ mode = "user"
  /\ PendingLine # {}
  /\ mode' = "handler"
  /\ cause' = PendingLine
  /\ UNCHANGED <<status, timers>>

(* The local timer's handler calls the scheduler, which loads another      *)
(* process: what else the cause held is raised again by the hardware.      *)
handleLocalTimer ==
  /\ mode = "handler" /\ LOCAL_INTLINE \in cause
  /\ timers' = timers \ {LOCAL_INTLINE}
  /\ mode' = "user"
  /\ cause' = {}
  /\ UNCHANGED status

handleSysTimer ==
  /\ mode = "handler" /\ cause # {} /\ Min(cause) = TIMER_INTLINE
  /\ timers' = timers \ {TIMER_INTLINE}
  /\ cause' = cause \ {TIMER_INTLINE}
  /\ UNCHANGED <<status, mode>>

handleDeviceInt ==
  /\ mode = "handler" /\ cause # {} /\ Min(cause) > TIMER_INTLINE
  /\ cause' = cause \ {Min(cause)}
  /\ ackDevice(findDevRegAddr(Min(cause)))
  /\ UNCHANGED <<timers, mode>>

LDST ==
  /\ mode = "handler" /\ cause = {}
  /\ mode' = "user"
  /\ UNCHANGED <<status, timers, cause>>

Handler == exception \/ handleLocalTimer \/ handleSysTimer \/ handleDeviceInt \/ LDST

Next ==
  \/ \E r \in Reg : sysDoIO(r) \/ EndOperation(r)
  \/ \E t \in {LOCAL_INTLINE, TIMER_INTLINE} : TimerExpires(t)
  \/ Handler

(* The processor does not stop in the handler and takes pending interrupts *)
(* at once; of the devices and programs nothing is assumed.                *)
Spec == Init /\ [][Next]_vars /\ WF_vars(Handler)

-----------------------------------------------------------------------------
(* Properties *)

(* Operations that overlap in time use different entries of g_sysiostates, *)
(* inside of the array: neither's semaphores disturb the other's.          *)
DeviceNumbersDistinct ==
  \A r1 \in Reg : status[r1] # "idle" =>
    /\ resolveDeviceAddress(r1) \in 0 .. DEVICE_NUMBER - 1
    /\ \A r2 \in Reg \ {r1} : status[r2] # "idle" =>
         resolveDeviceAddress(r1) # resolveDeviceAddress(r2)

(* handleDeviceInt works for a register set whose operation has ended: the *)
(* semaphore it signals is the one of a process whose I/O is over.  The    *)
(* line comes from a snapshot of the cause, the device from the bitmap at  *)
(* the time of handling, the half of a terminal from its status.           *)
ServesEndedOperation ==
  mode = "handler" /\ cause # {} /\ Min(cause) > TIMER_INTLINE =>
    status[findDevRegAddr(Min(cause))] \in Ended

(* Every interrupt is acknowledged in the end, also with others pending on *)
(* the same or on lines with higher priority.                              *)
EveryInterruptServed ==
  \A r \in Reg : (status[r] \in Ended) ~> (status[r] = "idle")

-----------------------------------------------------------------------------
(* What a comment says, and the code does not do *)

(* resolveDeviceAddress "returns the corresponding device number given the *)
(* address of the device": DOIO on an installed device does not PANIC.     *)
InstalledDeviceUsable == mode # "panic"
=============================================================================
