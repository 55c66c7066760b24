-------------------------- MODULE InterruptsProofs -------------------------
(***************************************************************************)
(* Proofs about Interrupts, for any set of installed devices: operations   *)
(* that overlap in time have semaphores of their own, and the handler only *)
(* signals operations that have ended.                                     *)
(***************************************************************************)
EXTENDS Interrupts, TLAPS

-----------------------------------------------------------------------------
(* Lines, devices and registers *)

Line == {DISK_INTLINE, FLASH_INTLINE, PRINTER_INTLINE, TERM_INTLINE}

(* A set of small numbers that is not empty has a least element.           *)
LEMMA MinIsThere ==
  ASSUME NEW S \in SUBSET (0 .. 7), S # {}
  PROVE  Min(S) \in S /\ \A x \in S : Min(S) <= x
<1>1. \E x \in S : \A y \in S : x <= y
  <2>1. S \subseteq {0, 1, 2, 3, 4, 5, 6, 7}
    OBVIOUS
  <2>2. CASE 0 \in S
    BY <2>1, <2>2
  <2>3. CASE 0 \notin S /\ 1 \in S
    BY <2>1, <2>3
  <2>4. CASE 0 \notin S /\ 1 \notin S /\ 2 \in S
    BY <2>1, <2>4
  <2>5. CASE 0 \notin S /\ 1 \notin S /\ 2 \notin S /\ 3 \in S
    BY <2>1, <2>5
  <2>6. CASE 0 \notin S /\ 1 \notin S /\ 2 \notin S /\ 3 \notin S /\ 4 \in S
    BY <2>1, <2>6
  <2>7. CASE 0 \notin S /\ 1 \notin S /\ 2 \notin S /\ 3 \notin S /\ 4 \notin S /\ 5 \in S
    BY <2>1, <2>7
  <2>8. CASE S \subseteq {6, 7} /\ 6 \in S
    BY <2>8
  <2>9. CASE S \subseteq {7}
    <3>1. S = {7}
      BY <2>9
    <3> QED
      BY <3>1
  <2> QED
    BY <2>2, <2>3, <2>4, <2>5, <2>6, <2>7, <2>8, <2>9, <2>1
<1> QED
  BY <1>1 DEF Min

(* A register belongs to one device.                                       *)
LEMMA RegParts ==
  ASSUME NEW dev \in Installed, NEW r \in RegsOf(dev)
  PROVE  /\ dev[1] \in Line /\ dev[2] \in 0 .. 7 /\ dev = <<dev[1], dev[2]>>
         /\ \/ r = DEVADDR(dev[1], dev[2])
            \/ dev[1] = TERM_INTLINE /\ r = Transmitter(dev[2])
         /\ r \in Int
<1>1. dev[1] \in Line /\ dev[2] \in 0 .. 7 /\ dev = <<dev[1], dev[2]>>
  BY InstalledAssumption DEF Line
<1>2. \/ r = DEVADDR(dev[1], dev[2])
      \/ dev[1] = TERM_INTLINE /\ r = Transmitter(dev[2])
  BY DEF RegsOf, Receiver
<1>3. r \in Int
  BY <1>1, <1>2 DEF DEVADDR, Transmitter, Line, DISK_INTLINE, FLASH_INTLINE, PRINTER_INTLINE,
     TERM_INTLINE, DEVREG_START_ADDR
<1> QED
  BY <1>1, <1>2, <1>3

LEMMA RegsDisjoint ==
  ASSUME NEW l \in Line, NEW m \in Line, NEW i \in 0 .. 7, NEW j \in 0 .. 7
  PROVE  /\ DEVADDR(l, i) = DEVADDR(m, j) => l = m /\ i = j
         /\ Transmitter(i) = DEVADDR(m, j) => FALSE
         /\ Transmitter(i) = Transmitter(j) => i = j
  BY DEF DEVADDR, Transmitter, Line, DISK_INTLINE, FLASH_INTLINE, PRINTER_INTLINE,
     TERM_INTLINE, DEVREG_START_ADDR

(* The devices with a number: all but the terminals other than the first.  *)
LEMMA Numbers ==
  ASSUME NEW l \in Line, NEW i \in 0 .. 7
  PROVE  /\ isTermReg(DEVADDR(l, i)) <=> l = TERM_INTLINE /\ i = 0
         /\ l # TERM_INTLINE => resolveDeviceAddress(DEVADDR(l, i)) = (l - 3) * 8 + i
         /\ resolveDeviceAddress(DEVADDR(TERM_INTLINE, i)) = IF i = 0 THEN 32 ELSE -1
         /\ resolveDeviceAddress(Transmitter(i)) = IF i = 0 THEN 33 ELSE -1
<1> USE DEF DEVADDR, Transmitter, Line, DISK_INTLINE, FLASH_INTLINE, PRINTER_INTLINE,
        TERM_INTLINE, DEVREG_START_ADDR, TERMREG_START_ADDR, TERMREG_END_ADDR, DEVREGSIZE
<1>1. isTermReg(DEVADDR(l, i)) <=> l = TERM_INTLINE /\ i = 0
  BY DEF isTermReg
<1>2. l # TERM_INTLINE => resolveDeviceAddress(DEVADDR(l, i)) = (l - 3) * 8 + i
  BY DEF resolveDeviceAddress
<1>3. resolveDeviceAddress(DEVADDR(TERM_INTLINE, i)) = IF i = 0 THEN 32 ELSE -1
  BY DEF resolveDeviceAddress
<1>4. resolveDeviceAddress(Transmitter(i)) = IF i = 0 THEN 33 ELSE -1
  BY DEF resolveDeviceAddress
<1> QED
  BY <1>1, <1>2, <1>3, <1>4

(* A register with a number is the one of a device that is no terminal, or *)
(* a half of the first terminal.                                           *)
LEMMA NumberOf ==
  ASSUME NEW l \in Line, NEW i \in 0 .. 7, NEW r, resolveDeviceAddress(r) # -1,
         r = DEVADDR(l, i) \/ (l = TERM_INTLINE /\ r = Transmitter(i))
  PROVE  \/ /\ r = DEVADDR(l, i) /\ l # TERM_INTLINE
            /\ resolveDeviceAddress(r) = (l - 3) * 8 + i
         \/ /\ r = DEVADDR(TERM_INTLINE, 0) /\ resolveDeviceAddress(r) = 32
         \/ /\ r = Transmitter(0) /\ resolveDeviceAddress(r) = 33
<1>1. CASE r = DEVADDR(l, i) /\ l # TERM_INTLINE
  BY <1>1, Numbers
<1>2. CASE r = DEVADDR(TERM_INTLINE, i)
  BY <1>2, Numbers
<1>3. CASE r = Transmitter(i)
  BY <1>3, Numbers
<1> QED
  BY <1>1, <1>2, <1>3

(* Registers with a number have different ones, inside of the array.       *)
LEMMA NumbersDistinct ==
  ASSUME NEW r1 \in Reg, NEW r2 \in Reg, resolveDeviceAddress(r1) # -1,
         resolveDeviceAddress(r1) = resolveDeviceAddress(r2)
  PROVE  r1 = r2 /\ resolveDeviceAddress(r1) \in 0 .. DEVICE_NUMBER - 1
<1>1. PICK a \in Installed : r1 \in RegsOf(a)
  BY DEF Reg
<1>2. PICK b \in Installed : r2 \in RegsOf(b)
  BY DEF Reg
<1>3. /\ a[1] \in Line /\ a[2] \in 0 .. 7 /\ b[1] \in Line /\ b[2] \in 0 .. 7
      /\ r1 = DEVADDR(a[1], a[2]) \/ (a[1] = TERM_INTLINE /\ r1 = Transmitter(a[2]))
      /\ r2 = DEVADDR(b[1], b[2]) \/ (b[1] = TERM_INTLINE /\ r2 = Transmitter(b[2]))
  BY <1>1, <1>2, RegParts
<1> DEFINE l == a[1]
           i == a[2]
           m == b[1]
           j == b[2]
<1> HIDE DEF l, i, m, j
<1>4. /\ l \in Line /\ i \in 0 .. 7 /\ m \in Line /\ j \in 0 .. 7
      /\ r1 = DEVADDR(l, i) \/ (l = TERM_INTLINE /\ r1 = Transmitter(i))
      /\ r2 = DEVADDR(m, j) \/ (m = TERM_INTLINE /\ r2 = Transmitter(j))
  BY <1>3 DEF l, i, m, j
<1>5. \/ /\ r1 = DEVADDR(l, i) /\ l # TERM_INTLINE
         /\ resolveDeviceAddress(r1) = (l - 3) * 8 + i
      \/ /\ r1 = DEVADDR(TERM_INTLINE, 0) /\ resolveDeviceAddress(r1) = 32
      \/ /\ r1 = Transmitter(0) /\ resolveDeviceAddress(r1) = 33
  BY <1>4, NumberOf
<1>6. \/ /\ r2 = DEVADDR(m, j) /\ m # TERM_INTLINE
         /\ resolveDeviceAddress(r2) = (m - 3) * 8 + j
      \/ /\ r2 = DEVADDR(TERM_INTLINE, 0) /\ resolveDeviceAddress(r2) = 32
      \/ /\ r2 = Transmitter(0) /\ resolveDeviceAddress(r2) = 33
  BY <1>4, NumberOf
<1>7. /\ l # TERM_INTLINE => (l - 3) * 8 + i \in 0 .. 31
      /\ m # TERM_INTLINE => (m - 3) * 8 + j \in 0 .. 31
      /\ (l - 3) * 8 + i = (m - 3) * 8 + j => l = m /\ i = j
  BY <1>4 DEF Line, DISK_INTLINE, FLASH_INTLINE, PRINTER_INTLINE, TERM_INTLINE
<1> QED
  BY <1>5, <1>6, <1>7 DEF DEVICE_NUMBER

-----------------------------------------------------------------------------
(* Overlapping operations *)

(* Only the transmitter of a terminal may not fail: findDevRegAddr looks   *)
(* for the status of a success there.                                      *)
TransmittersSucceed == \A i \in 0 .. 7 : Transmitter(i) \notin MayFail

(* An operation was begun on a register with a number, and it fails only   *)
(* where it may; a line in the cause keeps an interrupt pending until it   *)
(* is handled.                                                             *)
OperationsNumbered ==
  \A r \in Reg : status[r] # "idle" => resolveDeviceAddress(r) # -1

FailuresAllowed == \A r \in Reg : status[r] = "error" => r \in MayFail

CausePending == mode = "handler" => cause \subseteq PendingLine

IntInv == TypeOK /\ OperationsNumbered /\ FailuresAllowed /\ CausePending

(* A line in the cause is a number, and the least is handled first.        *)
LEMMA LeastCause ==
  ASSUME TypeOK, cause # {}
  PROVE  Min(cause) \in cause /\ Min(cause) \in 1 .. 7 /\ \A x \in cause : Min(cause) <= x
<1>1. cause \in SUBSET (0 .. 7)
  BY DEF TypeOK
<1> QED
  BY <1>1, MinIsThere DEF TypeOK

(* A device line in the cause has a device with an interrupt, and the      *)
(* register found is one of its registers, with an operation that ended.   *)
LEMMA RegisterFound ==
  ASSUME IntInv, mode = "handler", cause # {}, Min(cause) > TIMER_INTLINE
  PROVE  /\ Min(cause) \in Line
         /\ \E dev \in PendingDev :
              dev[1] = Min(cause) /\ findDevRegAddr(Min(cause)) \in RegsOf(dev)
         /\ TransmittersSucceed => status[findDevRegAddr(Min(cause))] \in Ended
<1> DEFINE l == Min(cause)
           N == {dev[2] : dev \in {x \in PendingDev : x[1] = l}}
           i == Min(N)
           addr == DEVADDR(l, i)
<1>1. l \in PendingLine /\ l > 2
  BY LeastCause DEF IntInv, CausePending, TIMER_INTLINE
<1>2. \A dev \in PendingDev : dev \in Installed /\ dev[1] \in Line /\ dev[2] \in 0 .. 7
                             /\ dev = <<dev[1], dev[2]>>
  BY RegParts DEF PendingDev
<1>3. l \in Line /\ N # {} /\ N \in SUBSET (0 .. 7)
  <2>1. l \notin timers
    <3>1. l # 1 /\ l # 2
      BY <1>1
    <3> QED
      BY <3>1 DEF IntInv, TypeOK, LOCAL_INTLINE, TIMER_INTLINE
  <2>2. PICK dev \in PendingDev : l = dev[1]
    BY <1>1, <2>1 DEF PendingLine
  <2> QED
    BY <1>2, <2>2
<1>4. i \in N
  BY <1>3, MinIsThere
<1>5. PICK dev \in PendingDev : dev[1] = l /\ dev[2] = i
  BY <1>4
<1> HIDE DEF l, N, i
<1>6. l \in Line /\ i \in 0 .. 7 /\ dev \in Installed /\ dev = <<l, i>>
  BY <1>2, <1>3, <1>5
<1>7. findDevRegAddr(l) = IF isTermReg(addr) /\ status[Transmitter(i)] = "done"
                          THEN Transmitter(i) ELSE addr
  BY DEF findDevRegAddr, N, i
<1>8. isTermReg(addr) <=> l = TERM_INTLINE /\ i = 0
  BY <1>6, Numbers
<1>9. RegsOf(dev) = IF l = TERM_INTLINE THEN {addr, Transmitter(i)} ELSE {addr}
  BY <1>5 DEF RegsOf, Receiver
<1> HIDE DEF addr
<1>10. findDevRegAddr(l) \in RegsOf(dev)
  BY <1>7, <1>8, <1>9
<1>11. ASSUME TransmittersSucceed
       PROVE  status[findDevRegAddr(l)] \in Ended
  <2>1. PICK r \in RegsOf(dev) : status[r] \in Ended
    BY <1>5 DEF PendingDev
  <2>2. CASE r = addr
    BY <1>7, <2>1, <2>2 DEF Ended
  <2>3. CASE r # addr
    <3>1. l = TERM_INTLINE /\ r = Transmitter(i)
      BY <1>9, <2>1, <2>3
    <3>2. r \in Reg
      BY <1>6, <2>1 DEF Reg
    <3>3. status[r] = "done"
      BY <1>6, <1>11, <2>1, <3>1, <3>2 DEF IntInv, FailuresAllowed, TransmittersSucceed, Ended
    <3>4. i = 0
      BY <1>6, <3>1, <3>2, <3>3, Numbers DEF IntInv, OperationsNumbered
    <3> QED
      BY <1>7, <1>8, <3>1, <3>3, <3>4 DEF Ended
  <2> QED
    BY <2>2, <2>3
<1> QED
  BY <1>5, <1>6, <1>10, <1>11 DEF l

(* handleDeviceInt ends the interrupt of one device, on the line that it   *)
(* takes off the cause.                                                    *)
LEMMA IntDevice == ASSUME IntInv, handleDeviceInt PROVE IntInv'
<1> DEFINE l == Min(cause)
           a == findDevRegAddr(l)
<1>1. /\ mode = "handler" /\ cause # {} /\ l > TIMER_INTLINE /\ cause' = cause \ {l}
      /\ status' = [status EXCEPT ![a] = "idle"] \/ status' = status
      /\ UNCHANGED <<timers, mode>>
  BY DEF handleDeviceInt, ackDevice
<1>2. l \in Line /\ \E dev \in PendingDev : dev[1] = l /\ a \in RegsOf(dev)
  BY <1>1, RegisterFound
<1>3. PICK dev \in PendingDev : dev[1] = l /\ a \in RegsOf(dev)
  BY <1>2
<1> HIDE DEF a, l
<1>4. \A r \in Reg : status'[r] = status[r] \/ (r = a /\ status'[r] = "idle")
  BY <1>1 DEF IntInv, TypeOK
<1>5. TypeOK' /\ OperationsNumbered' /\ FailuresAllowed'
  <2>1. status' \in [Reg -> {"idle", "busy"} \cup Ended]
    BY <1>1 DEF IntInv, TypeOK
  <2> QED
    BY <1>1, <1>4, <2>1 DEF IntInv, TypeOK, OperationsNumbered, FailuresAllowed
<1>6. CausePending'
  <2> SUFFICES ASSUME NEW m \in cause, m # l PROVE m \in PendingLine'
    BY <1>1 DEF CausePending
  <2>1. m \in PendingLine
    BY <1>1 DEF IntInv, CausePending
  <2>2. CASE m \in timers
    BY <1>1, <2>2 DEF PendingLine
  <2>3. CASE m \notin timers
    <3>1. PICK e \in PendingDev : e[1] = m
      BY <2>1, <2>3 DEF PendingLine
    <3>2. PICK r \in RegsOf(e) : status[r] \in Ended /\ e \in Installed
      BY <3>1 DEF PendingDev
    <3>3. r # a
      <4>1. /\ dev \in Installed /\ dev[1] \in Line /\ dev[2] \in 0 .. 7
            /\ e[1] \in Line /\ e[2] \in 0 .. 7
            /\ r = DEVADDR(e[1], e[2]) \/ (e[1] = TERM_INTLINE /\ r = Transmitter(e[2]))
            /\ a = DEVADDR(dev[1], dev[2]) \/ (dev[1] = TERM_INTLINE /\ a = Transmitter(dev[2]))
        BY <1>3, <3>2, RegParts DEF PendingDev
      <4> DEFINE i == dev[2]
                 j == e[2]
      <4>2. /\ i \in 0 .. 7 /\ j \in 0 .. 7 /\ l \in Line /\ m \in Line
            /\ r = DEVADDR(m, j) \/ (m = TERM_INTLINE /\ r = Transmitter(j))
            /\ a = DEVADDR(l, i) \/ (l = TERM_INTLINE /\ a = Transmitter(i))
        BY <1>3, <3>1, <4>1
      <4> HIDE DEF i, j
      <4> QED
        BY <4>2, RegsDisjoint
    <3>4. r \in Reg /\ status'[r] \in Ended
      BY <1>4, <3>2, <3>3 DEF Reg
    <3>5. e \in PendingDev'
      BY <3>2, <3>4 DEF PendingDev
    <3> QED
      BY <3>1, <3>5 DEF PendingLine
  <2> QED
    BY <2>2, <2>3
<1> QED
  BY <1>5, <1>6 DEF IntInv

(* An operation that begins or ends takes no interrupt away.               *)
LEMMA IntOperation ==
  ASSUME IntInv, NEW r \in Reg, sysDoIO(r) \/ EndOperation(r)
  PROVE  IntInv'
<1>1. UNCHANGED <<timers, cause>>
  BY DEF sysDoIO, EndOperation
<1>2. CASE sysDoIO(r)
  <2>1. /\ mode = "user"
        /\ \/ mode' = "panic" /\ UNCHANGED status
           \/ /\ mode' = "user" /\ resolveDeviceAddress(r) # -1
              /\ status' = [status EXCEPT ![r] = "busy"]
    BY <1>2 DEF sysDoIO
  <2>2. \A q \in Reg : status'[q] = status[q]
                       \/ (q = r /\ status'[q] = "busy" /\ resolveDeviceAddress(r) # -1)
    BY <2>1 DEF IntInv, TypeOK
  <2>3. TypeOK'
    BY <1>1, <2>1 DEF IntInv, TypeOK
  <2> QED
    BY <2>1, <2>2, <2>3 DEF IntInv, OperationsNumbered, FailuresAllowed, CausePending
<1>3. CASE EndOperation(r)
  <2>1. /\ status[r] = "busy" /\ mode' = mode
        /\ \/ status' = [status EXCEPT ![r] = "done"]
           \/ r \in MayFail /\ status' = [status EXCEPT ![r] = "error"]
    BY <1>3 DEF EndOperation
  <2>2. /\ TypeOK'
        /\ \A q \in Reg : status[q] = "idle" => status'[q] = "idle"
        /\ \A q \in Reg : status[q] \in Ended => status'[q] \in Ended
        /\ \A q \in Reg : status'[q] = "error" => status[q] = "error" \/ q \in MayFail
    BY <1>1, <2>1 DEF IntInv, TypeOK, Ended
  <2>3. PendingLine \subseteq PendingLine'
    <3>1. \A dev \in Installed : RegsOf(dev) \subseteq Reg
      BY DEF Reg
    <3>2. PendingDev \subseteq PendingDev'
      BY <2>2, <3>1 DEF PendingDev
    <3> QED
      BY <1>1, <3>2 DEF PendingLine
  <2> QED
    BY <1>1, <2>1, <2>2, <2>3 DEF IntInv, OperationsNumbered, FailuresAllowed, CausePending
<1> QED
  BY <1>2, <1>3

(* The timers, and the handler without the devices.                        *)
LEMMA IntOther ==
  ASSUME IntInv,
         \/ exception \/ handleLocalTimer \/ handleSysTimer \/ LDST \/ UNCHANGED vars
         \/ \E t \in {LOCAL_INTLINE, TIMER_INTLINE} : TimerExpires(t)
  PROVE  IntInv'
<1>1. UNCHANGED status
  BY DEF exception, handleLocalTimer, handleSysTimer, LDST, vars, TimerExpires
<1>2. OperationsNumbered' /\ FailuresAllowed' /\ PendingDev' = PendingDev
  BY <1>1 DEF IntInv, OperationsNumbered, FailuresAllowed, PendingDev
<1>3. PendingLine \subseteq 1 .. 7
  <2>1. \A dev \in PendingDev : dev[1] \in 1 .. 7
    BY RegParts DEF PendingDev, Line, DISK_INTLINE, FLASH_INTLINE, PRINTER_INTLINE, TERM_INTLINE
  <2>2. timers \subseteq {1, 2}
    BY DEF IntInv, TypeOK, LOCAL_INTLINE, TIMER_INTLINE
  <2>3. \A x \in timers : x \in 1 .. 7
    BY <2>2
  <2> QED
    BY <2>1, <2>3 DEF PendingLine
<1>4. TypeOK'
  BY <1>1, <1>3 DEF IntInv, TypeOK, exception, handleLocalTimer, handleSysTimer, LDST, vars,
     TimerExpires
<1>5. CausePending'
  <2>1. CASE handleSysTimer
    BY <1>2, <2>1 DEF handleSysTimer, IntInv, CausePending, PendingLine
  <2>2. CASE exception
    BY <1>2, <2>2 DEF exception, CausePending, PendingLine
  <2>3. CASE handleLocalTimer \/ LDST
    BY <2>3 DEF handleLocalTimer, LDST, CausePending
  <2>4. CASE UNCHANGED vars \/ \E t \in {LOCAL_INTLINE, TIMER_INTLINE} : TimerExpires(t)
    BY <1>2, <2>4 DEF vars, TimerExpires, IntInv, CausePending, PendingLine
  <2> QED
    BY <2>1, <2>2, <2>3, <2>4
<1> QED
  BY <1>2, <1>4, <1>5 DEF IntInv

LEMMA InitIntInv == Init => IntInv
<1> SUFFICES ASSUME Init PROVE IntInv
  OBVIOUS
<1>1. TypeOK
  BY DEF Init, TypeOK
<1> QED
  BY <1>1 DEF Init, IntInv, OperationsNumbered, FailuresAllowed, CausePending

(* The invariant of interruptHandler and the devices.                      *)
THEOREM InterruptsInvariance == Spec => []IntInv
<1>1. IntInv /\ [Next]_vars => IntInv'
  BY IntDevice, IntOperation, IntOther DEF Next, Handler
<1> QED
  BY <1>1, InitIntInv, PTL DEF Spec

(* Every variable keeps to its type.                                       *)
THEOREM InterruptsTypeCorrect == Spec => []TypeOK
<1>1. IntInv => TypeOK
  BY DEF IntInv
<1> QED
  BY <1>1, InterruptsInvariance, PTL

(* Operations that overlap in time, on any devices, use different entries  *)
(* of g_sysiostates.                                                       *)
THEOREM OverlapIsSafe == Spec => []DeviceNumbersDistinct
<1>1. IntInv => DeviceNumbersDistinct
  BY NumbersDistinct DEF IntInv, OperationsNumbered, DeviceNumbersDistinct
<1> QED
  BY <1>1, InterruptsInvariance, PTL

(* The handler signals the semaphore of an operation that has ended.  When *)
(* the operation of a transmitter fails, findDevRegAddr would choose the   *)
(* receiver.                                                               *)
THEOREM ServesOnlyEnded == ASSUME TransmittersSucceed PROVE Spec => []ServesEndedOperation
<1>1. IntInv => ServesEndedOperation
  BY RegisterFound DEF ServesEndedOperation
<1> QED
  BY <1>1, InterruptsInvariance, PTL
=============================================================================
