---------------------------- MODULE CpuTimeProofs ---------------------------
(***************************************************************************)
(* Every process pays for its own time and for no other, for any number of *)
(* processes and any width of the clock.                                   *)
(***************************************************************************)
EXTENDS CpuTime, TLAPS

Time == 0 .. WRAP - 1

(* The types, with what the kernel promises about its current process:     *)
(* there is one while it executes on behalf of a process or handles an     *)
(* interrupt that has hit one, and it is in no queue, not even when it is  *)
(* the freed PCB that SYS2 leaves behind.                                  *)
TimeTypeOK ==
  /\ tod \in Time /\ g_tod \in Time
  /\ p_time \in [Pcb -> Time] /\ paid \in [Pcb -> Time]
  /\ g_current_process \in Pcb \cup {NULL}
  /\ ready \subseteq Pcb /\ blocked \subseteq Pcb
  /\ at \in Place
  /\ at \in {"user", "syscall", "interrupt"} => g_current_process \in Pcb
  /\ ready \cap blocked = {}
  /\ g_current_process \notin ready \cup blocked

TimeInv == TimeTypeOK /\ ChargedUnlessCaught

-----------------------------------------------------------------------------
(* Arithmetic modulo WRAP on sums and differences of two times.            *)

LEMMA ModRange ==
  ASSUME NEW x \in (-WRAP) .. 2 * WRAP - 1
  PROVE  x % WRAP = IF x < 0 THEN x + WRAP ELSE IF x < WRAP THEN x ELSE x - WRAP
  BY WrapAssumption

LEMMA ModClosed == ASSUME NEW x \in Int PROVE x % WRAP \in Time
  BY WrapAssumption DEF Time

(* A tick between the reading of the clock and the next one is charged     *)
(* once, also when the clock, the difference or the sum wraps around.      *)
LEMMA TickCharged ==
  ASSUME NEW a \in Time, NEW t \in Time, NEW g \in Time
  PROVE  (a + ((((t + 1) % WRAP) - g) % WRAP)) % WRAP = (((a + ((t - g) % WRAP)) % WRAP) + 1) % WRAP
<1> DEFINE t1 == (t + 1) % WRAP
           d  == (t - g) % WRAP
           d1 == (t1 - g) % WRAP
           s  == (a + d) % WRAP
<1>1. t1 \in Time /\ d \in Time /\ d1 \in Time /\ s \in Time
  BY ModClosed DEF Time
<1>2. t1 = IF t + 1 < WRAP THEN t + 1 ELSE 0
  BY ModRange, WrapAssumption DEF Time
<1>3. d = IF t < g THEN t - g + WRAP ELSE t - g
  BY ModRange, WrapAssumption DEF Time
<1>4. d1 = IF t1 < g THEN t1 - g + WRAP ELSE t1 - g
  BY SMTT(30), <1>1, ModRange, WrapAssumption DEF Time
<1>5. s = IF a + d < WRAP THEN a + d ELSE a + d - WRAP
  BY <1>1, ModRange, WrapAssumption DEF Time
<1>6. (s + 1) % WRAP = IF s + 1 < WRAP THEN s + 1 ELSE 0
  BY <1>1, ModRange, WrapAssumption DEF Time
<1>7. (a + d1) % WRAP = IF a + d1 < WRAP THEN a + d1 ELSE a + d1 - WRAP
  BY <1>1, ModRange, WrapAssumption DEF Time
<1> HIDE DEF t1, d, d1, s
<1>8. d1 = IF d + 1 < WRAP THEN d + 1 ELSE 0
  BY <1>1, <1>2, <1>3, <1>4, WrapAssumption DEF Time
<1>9. (a + d1) % WRAP = (s + 1) % WRAP
  BY <1>1, <1>5, <1>6, <1>7, <1>8, WrapAssumption DEF Time
<1> QED
  BY <1>9 DEF t1, d, d1, s

(* Right after the clock has been read nothing has passed.                 *)
LEMMA NothingPassed ==
  ASSUME NEW a \in Time, NEW t \in Time
  PROVE  (a + ((t - t) % WRAP)) % WRAP = a
<1>1. (t - t) % WRAP = 0
  BY ModRange, WrapAssumption DEF Time
<1> QED
  BY <1>1, ModRange, WrapAssumption DEF Time

-----------------------------------------------------------------------------
(* The two ways in which time enters p_time and SYS6.                      *)

(* What SYS6 would return stays a time.                                    *)
LEMMA SysGetTimeType == ASSUME TimeTypeOK, g_current_process \in Pcb PROVE sysGetTime \in Time
  BY ModClosed DEF TimeTypeOK, sysGetTime, getPassedTime, Time

(* Charging the current process makes its p_time what SYS6 would return    *)
(* and leaves all others alone.                                            *)
LEMMA UpdateProcessTime ==
  ASSUME TimeTypeOK, updateProcessTime
  PROVE  /\ p_time' \in [Pcb -> Time] /\ g_tod' = tod
         /\ \A p \in Pcb : p_time'[p] = IF p = g_current_process THEN sysGetTime ELSE p_time[p]
<1>1. CASE g_current_process = NULL
  BY <1>1, PcbAssumption DEF updateProcessTime, TimeTypeOK
<1>2. CASE g_current_process \in Pcb
  BY <1>2, PcbAssumption, SysGetTimeType DEF updateProcessTime, TimeTypeOK, sysGetTime
<1> QED
  BY <1>1, <1>2 DEF TimeTypeOK

-----------------------------------------------------------------------------
(* One lemma per step that reads the clock or changes the process.         *)

LEMMA InitTime == Init => TimeInv
  BY PcbAssumption, WrapAssumption
     DEF Init, TimeInv, TimeTypeOK, ChargedUnlessCaught, Charged, Live, OnBehalf, Time, Place

LEMMA TickStep == ASSUME TimeInv, Tick PROVE TimeInv'
<1>1. TimeTypeOK'
  BY ModClosed DEF Tick, TimeInv, TimeTypeOK, Time, OnBehalf, procVars
<1>2. ASSUME NEW p \in Live \ caught PROVE Charged(p)'
  <2>1. CASE OnBehalf /\ p = g_current_process
    <3>1. paid'[p] = (paid[p] + 1) % WRAP
      BY <2>1 DEF Tick, TimeInv, TimeTypeOK, OnBehalf
    <3>2. paid[p] = sysGetTime
      BY <2>1, <1>2 DEF TimeInv, ChargedUnlessCaught, Charged
    <3>3. sysGetTime' = (sysGetTime + 1) % WRAP
      <4>1. p_time[p] \in Time /\ tod \in Time /\ g_tod \in Time
        BY <2>1 DEF TimeInv, TimeTypeOK, OnBehalf
      <4>2. sysGetTime' = (p_time[p] + ((((tod + 1) % WRAP) - g_tod) % WRAP)) % WRAP
        BY <2>1 DEF Tick, sysGetTime, getPassedTime, procVars
      <4> QED
        BY <4>1, <4>2, TickCharged, <2>1 DEF sysGetTime, getPassedTime
    <3> QED
      BY <3>1, <3>2, <3>3, <2>1 DEF Charged, Tick, OnBehalf, procVars
  <2>2. CASE ~ (OnBehalf /\ p = g_current_process)
    BY <2>2, <1>2 DEF Tick, TimeInv, TimeTypeOK, ChargedUnlessCaught, Charged, OnBehalf, procVars,
                      Live
  <2> QED
    BY <2>1, <2>2
<1> QED
  BY <1>1, <1>2 DEF TimeInv, ChargedUnlessCaught, Live, Tick, procVars

(* The system call begins and ends, or the processor enters and leaves the *)
(* idle loop: nobody's time changes hands.                                 *)
LEMMA PlaceStep ==
  ASSUME TimeInv, EXC_SYS \/ sysReturn \/ idle \/ leaveIdle
  PROVE  TimeInv'
  BY DEF EXC_SYS, sysReturn, idle, leaveIdle, TimeInv, TimeTypeOK, ChargedUnlessCaught, Charged,
         OnBehalf, procVars, Live, sysGetTime, getPassedTime, Place

(* SYS1 gives the new process a time of 0.                                 *)
LEMMA CreateStep == ASSUME TimeInv, sysCreateProcess PROVE TimeInv'
<1>1. PICK p \in Pcb \ Live :
        /\ ready' = ready \cup {p}
        /\ p_time' = [p_time EXCEPT ![p] = 0]
        /\ paid' = [paid EXCEPT ![p] = 0]
        /\ caught' = caught \ {p}
  BY DEF sysCreateProcess
<1>2. at = "syscall" /\ UNCHANGED <<tod, g_tod, g_current_process, blocked, at>>
  BY DEF sysCreateProcess
<1>3. p # g_current_process /\ p \notin blocked
  BY <1>1, <1>2 DEF Live
<1>4. TimeTypeOK'
  BY <1>1, <1>2, <1>3, WrapAssumption DEF TimeInv, TimeTypeOK, Time
<1>5. ASSUME NEW q \in Live' \ caught' PROVE Charged(q)'
  <2>1. q \in Pcb /\ (q # p => q \in Live \ caught)
    BY <1>1, <1>2, <1>5 DEF Live, TimeInv, TimeTypeOK
  <2>2. sysGetTime' = sysGetTime
    BY <1>1, <1>2, <1>3 DEF sysGetTime, getPassedTime, TimeInv, TimeTypeOK
  <2>3. CASE q = p
    BY <2>3, <1>1, <1>2, <1>3 DEF Charged, TimeInv, TimeTypeOK
  <2>4. CASE q # p
    BY <2>4, <2>1, <2>2, <1>1, <1>2
       DEF Charged, TimeInv, TimeTypeOK, ChargedUnlessCaught, OnBehalf
  <2> QED
    BY <2>3, <2>4
<1> QED
  BY <1>4, <1>5 DEF TimeInv, ChargedUnlessCaught

(* The current process pays and is blocked, from a system call or from an  *)
(* interrupt; then it is among the caught.                                 *)
LEMMA BlockStep ==
  ASSUME TimeInv, Block, g_current_process # NULL,
         \/ at = "syscall" /\ caught' = caught
         \/ caught' = caught \cup {g_current_process}
  PROVE  TimeInv'
<1>1. g_current_process \in Pcb
  BY DEF TimeInv, TimeTypeOK
<1>2. /\ p_time' \in [Pcb -> Time] /\ g_tod' = tod
      /\ \A p \in Pcb : p_time'[p] = IF p = g_current_process THEN sysGetTime ELSE p_time[p]
  BY UpdateProcessTime DEF Block, TimeInv
<1>3. TimeTypeOK'
  BY <1>1, <1>2, PcbAssumption DEF Block, TimeInv, TimeTypeOK, Place
<1>4. ASSUME NEW p \in Live' \ caught' PROVE Charged(p)'
  <2>1. p \in Live \ caught /\ p \in Pcb
    BY <1>1, <1>4 DEF Block, Live, TimeInv, TimeTypeOK
  <2>2. paid'[p] = paid[p] /\ ~ OnBehalf'
    BY DEF Block, OnBehalf
  <2>3. p_time'[p] = paid[p]
    BY <1>2, <1>4, <2>1 DEF TimeInv, ChargedUnlessCaught, Charged, OnBehalf
  <2> QED
    BY <2>2, <2>3 DEF Charged
<1> QED
  BY <1>3, <1>4 DEF TimeInv, ChargedUnlessCaught

(* What SYS2 leaves are processes whose time is settled.                   *)
LEMMA TerminateStep == ASSUME TimeInv, sysTerminateProcess PROVE TimeInv'
<1>1. PICK rest \in SUBSET (ready \cup blocked) :
        ready' = ready \cap rest /\ blocked' = blocked \cap rest
  BY DEF sysTerminateProcess
<1>2. TimeTypeOK'
  BY <1>1 DEF sysTerminateProcess, TimeInv, TimeTypeOK, Place
<1>3. ASSUME NEW p \in Live' \ caught' PROVE Charged(p)'
  <2>1. p \in ready \cup blocked /\ p \notin caught /\ p # g_current_process
    BY <1>1, <1>3 DEF sysTerminateProcess, Live, TimeInv, TimeTypeOK
  <2> QED
    BY <2>1 DEF sysTerminateProcess, Live, TimeInv, ChargedUnlessCaught, Charged, OnBehalf
<1> QED
  BY <1>2, <1>3 DEF TimeInv, ChargedUnlessCaught

(* The clock is read when the process gets the processor.                  *)
LEMMA DispatchStep == ASSUME TimeInv, dispatch PROVE TimeInv'
<1>1. PICK p \in ready : g_current_process' = p /\ ready' = ready \ {p}
  BY DEF dispatch
<1>2. TimeTypeOK'
  BY <1>1 DEF dispatch, TimeInv, TimeTypeOK, Place
<1>3. ASSUME NEW q \in Live' \ caught' PROVE Charged(q)'
  <2>1. q \in Live \ caught /\ q \in Pcb
    BY <1>1, <1>3 DEF dispatch, Live, TimeInv, TimeTypeOK
  <2>2. paid[q] = p_time[q]
    BY <2>1 DEF dispatch, TimeInv, ChargedUnlessCaught, Charged, OnBehalf
  <2>3. q = p => sysGetTime' = p_time[q]
    <3>1. p_time[q] \in Time /\ tod \in Time
      BY <2>1 DEF TimeInv, TimeTypeOK
    <3>2. q = p => sysGetTime' = (p_time[q] + ((tod - tod) % WRAP)) % WRAP
      BY <1>1 DEF dispatch, sysGetTime, getPassedTime
    <3> QED
      BY <3>1, <3>2, NothingPassed
  <2> QED
    BY <1>1, <2>2, <2>3 DEF dispatch, Charged
<1> QED
  BY <1>2, <1>3 DEF TimeInv, ChargedUnlessCaught

(* An interrupt: the process pays for what it has executed.                *)
LEMMA EXC_INTStep == ASSUME TimeInv, EXC_INT PROVE TimeInv'
<1>1. /\ p_time' \in [Pcb -> Time] /\ g_tod' = tod
      /\ \A p \in Pcb : p_time'[p] = IF p = g_current_process THEN sysGetTime ELSE p_time[p]
  BY UpdateProcessTime DEF EXC_INT, TimeInv
<1>2. TimeTypeOK'
  BY <1>1 DEF EXC_INT, TimeInv, TimeTypeOK, procVars, Place
<1>3. ASSUME NEW p \in Live' \ caught' PROVE Charged(p)'
  <2>1. p \in Live \ caught /\ p \in Pcb
    BY <1>3 DEF EXC_INT, procVars, Live, TimeInv, TimeTypeOK
  <2>2. p = g_current_process => OnBehalf
    BY <2>1 DEF EXC_INT, Live, OnBehalf, TimeInv, TimeTypeOK
  <2>3. p_time'[p] = paid[p]
    BY <1>1, <2>1, <2>2 DEF TimeInv, ChargedUnlessCaught, Charged
  <2> QED
    BY <2>3 DEF EXC_INT, Charged, OnBehalf
<1> QED
  BY <1>2, <1>3 DEF TimeInv, ChargedUnlessCaught

(* The handlers of the timers and devices move processes between queues.   *)
LEMMA HandlerStep == ASSUME TimeInv, timerInUser \/ wake PROVE TimeInv'
<1>1. CASE timerInUser
  BY <1>1, PcbAssumption DEF timerInUser, TimeInv, TimeTypeOK, ChargedUnlessCaught, Charged,
                             OnBehalf, Live, Place
<1>2. CASE wake
  BY <1>2 DEF wake, TimeInv, TimeTypeOK, ChargedUnlessCaught, Charged, OnBehalf, Live
<1> QED
  BY <1>1, <1>2

(* The clock is read again before the interrupted process, or the idle     *)
(* loop, goes on.                                                          *)
LEMMA ReturnStep == ASSUME TimeInv, interruptReturn \/ timerInIdle PROVE TimeInv'
<1>1. TimeTypeOK'
  BY DEF interruptReturn, timerInIdle, TimeInv, TimeTypeOK, procVars, Place
<1>2. ASSUME NEW p \in Live' \ caught' PROVE Charged(p)'
  <2>1. p \in Live \ caught /\ p \in Pcb
    BY <1>2 DEF interruptReturn, timerInIdle, procVars, Live, TimeInv, TimeTypeOK
  <2>2. paid[p] = p_time[p]
    BY <2>1 DEF interruptReturn, timerInIdle, TimeInv, ChargedUnlessCaught, Charged, OnBehalf
  <2>3. p = g_current_process => sysGetTime' = p_time[p]
    <3>1. p_time[p] \in Time /\ tod \in Time
      BY <2>1 DEF TimeInv, TimeTypeOK
    <3>2. p = g_current_process => sysGetTime' = (p_time[p] + ((tod - tod) % WRAP)) % WRAP
      BY DEF interruptReturn, timerInIdle, procVars, sysGetTime, getPassedTime
    <3> QED
      BY <3>1, <3>2, NothingPassed
  <2> QED
    BY <2>2, <2>3 DEF interruptReturn, timerInIdle, procVars, Charged
<1> QED
  BY <1>1, <1>2 DEF TimeInv, ChargedUnlessCaught

LEMMA NextTime == ASSUME TimeInv, [Next]_vars PROVE TimeInv'
<1>1. CASE sysBlock \/ blockInInterrupt
  BY <1>1, BlockStep, PcbAssumption DEF sysBlock, blockInInterrupt, TimeInv, TimeTypeOK
<1>2. CASE UNCHANGED vars
  BY <1>2 DEF vars, procVars, TimeInv, TimeTypeOK, ChargedUnlessCaught, Charged, OnBehalf, Live,
              sysGetTime, getPassedTime
<1> QED
  BY <1>1, <1>2, TickStep, PlaceStep, CreateStep, TerminateStep, DispatchStep, EXC_INTStep,
     HandlerStep, ReturnStep DEF Next, handleLocalTimer

(* The time of a process is that of its own instructions and system calls, *)
(* unless an interrupt has blocked it: for any number of processes, and    *)
(* for a clock of any width, in particular one of 32 bits.                 *)
THEOREM TimeIsOwn == Spec => []ChargedUnlessCaught
<1>1. TimeInv => ChargedUnlessCaught
  BY DEF TimeInv
<1> QED
  BY <1>1, InitTime, NextTime, PTL DEF Spec
=============================================================================
