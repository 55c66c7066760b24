# PandOS: TLA+ models, model checking and proofs

PandOS (src/) is a small kernel for the uMPS3 machine: one processor, a
process table of `MAX_PROC` PCBs, semaphores, device I/O and two timers.
This directory holds TLA+ models of its nucleus, the TLC runs that check them
and TLAPS proofs about them.

## 1. Inventory

| component | state | operations | interacts with |
|---|---|---|---|
| process queues and tree (`phase1/process.c`) | `pcbFree_h`, `p_list`, `p_parent`, `p_child` | alloc, free, insert/remove in queues, insert/remove/out child | everything: one `p_list` link per PCB serves the free list, the ready queue and the semaphore queues |
| active semaphore hash (`phase1/semaphore.c`) | SEMD table and free list, hash table, one queue per active semaphore, `p_semAdd` | insertBlocked, removeBlocked, outBlocked | P and V, termination, clock, devices |
| lists (`lib/list.h`, `utils.h`, `hashtable.h`) | the links of whoever embeds them | add, delete, move, replace, swap, rotate, cut, splice; hash lists | all tables of phase 1 |
| namespaces (`phase1/namespace.c`) | NSD table with a free and a used list, namespace of each PCB | alloc, free, addNamespace, getNamespace | SYS1, SYS9, SYS10 |
| initialisation (`phase2/nucleus.c`) | all globals | main | starts the scheduler with `test()` ready |
| scheduler (`phase2/scheduler.c`) | `g_ready_queue`, `g_current_process`, the two counts | dispatch, HALT, PANIC, idle loop | called by whatever gives the processor up; its idle loop is the only kernel code with interrupts enabled |
| semaphores (`phase2/syscall.c`) | the integers at semaphore addresses | SYS3 (P), SYS4 (V); both can block | scheduler, ASH |
| processes (`phase2/syscall.c`) | `g_process_count`, tree | SYS1, SYS2, death by trap | all queues, device state |
| device I/O (`phase2/devices.c`) | `g_sysiostates`: `sem_mut`, `sem_sync`, `waiting_process` | SYS5, beginIO, endIO, device interrupt, passing the baton | semaphores, interrupts, termination |
| pseudo-clock (`syscall.c`, `exceptions.c`) | `g_pseudo_clock` | SYS7, interval timer interrupt | `g_soft_block_count`, semaphores |
| exceptions (`phase2/exceptions.c`) | saved state and cause register | demultiplexing, time slice, pass up or die | all of the above |
| processor time | `p_time`, `g_tod` | SYS6 | every exception |

What is hard here:

* Interrupts hit user code and four points of the idle loop. Between the second
  look at the ready queue and `WAIT` a process may become ready.
* A function that blocks never returns. `handleDeviceInt` calls `sysVerhogen` and
  `beginIO`, which may block *the interrupted process* and drop the rest of the
  handler.
* Termination recurses over a tree whose members are in the ready queue, blocked,
  or waiting for a device that is still working.
* PCBs are reused while `g_current_process` and `waiting_process` may still point
  to them.
* `g_process_count` and `g_soft_block_count` decide between HALT, PANIC and
  waiting; every path has to maintain them.
* The local timer runs on in the kernel. A slice that ends in a system call is pending
  when the idle loop enables interrupts, for a process that has blocked or ended.
* All results of `insertBlocked` are ignored although it can fail.
* A pid is the address of a PCB; nobody checks that it is still in use.
* One `p_list` link serves all queues, `insertProcQ` and `freePcb` take a PCB off
  whatever list it may be in, and `p_parent` is never reset: each relies on links
  that some earlier call left behind.
* `g_tod` is one global for all readings of the clock, and `sysPasseren` charges
  whoever is current, from an interrupt too.

`PROJECT.json` lists these as hazards, each with the line where it bites and the
properties that would catch it.

## 2. Modules

| module | what it is |
|---|---|
| `Nucleus` | the kernel with its programs, interrupts and devices |
| `ProcLife` | abstract specification: the life cycle of processes |
| `Interrupts` | from interrupt lines to the device and half of a terminal that is served |
| `QueueLemmas` | lemmas on sequences used as queues and as a stack |
| `NucleusProofs` | the inductive invariant of `Nucleus` and its consequences; mutexes of the devices under any programs; devices, waits and results under programs that respect them; the process tree and `g_process_count`; no process is lost, `g_soft_block_count`, the ways to stop, the refinement of `ProcLife` |
| `Discipline` | the inductive invariants behind what depends on the programs: call stack, devices, tree, counts, current process |
| `InterruptsProofs` | numbers of devices, and whom the interrupt handler serves |
| `Lists` | the circular and the hash lists of `list.h` and the safe variants of `utils.h`, as operators on a memory of links |
| `ListMachine`, `HListMachine` | any program over these operations, next to the sequences they should work on |
| `ListLemmas` | what the operators of `Lists` do to one circle or bucket, and to all lists of one memory |
| `ListProofs` | the invariants of the two list machines and what the runs check of them |
| `Phase1` | `process.c` and `semaphore.c` with their pointers, tables and the hash table, on top of `Lists` |
| `Phase1Proofs` | the invariant of `Phase1` and its refinement of `Queues` |
| `Queues` | abstract specification of phase 1: sequences, which `Nucleus` works on |
| `Namespaces` | `namespace.c`, SYS1, SYS9, SYS10 |
| `NamespaceProofs` | the process tree, the walks along it, the NSD lists |
| `CpuTime` | `g_tod`, `p_time`, SYS6: who pays for what |
| `CpuTimeProofs` | the invariant of `CpuTime` and its theorem |
| `MCNucleus`, `MCInterrupts`, `MCPhase1`, `MCNamespaces` | instances for TLC |
| `MCLists` | `ListMachine` and `HListMachine` side by side |

How they compose: `Phase1` uses the operators of `Lists` for every link it writes
and refines `Queues`; `Nucleus` is built on the view of `Queues` (sequences, one
descriptor per non-empty queue) and refines `ProcLife`; `Interrupts`, `CpuTime` and
`Namespaces` look at what `Nucleus` abstracts from, each with the control that matters
to it.

### Nucleus

The variables have the names of the C globals and PCB fields. Abstractions:

* The circular lists are sequences, the free list and the children of a process
  are sets; the order in which PCBs are allocated or children terminated is left
  open.
* The SEMD table is represented by what limits it: a descriptor is in use exactly
  while its queue is not empty, and there are as many as PCBs.
* A `state_t` is where execution resumes, the call that saved it, and whether v0
  holds the result of DOIO.
* A device is idle, busy, or has ended with or without success.
* `kcall` is the kernel's call stack. A C function that calls a function which may
  block, and goes on afterwards, pushes a frame for its rest: `sysDoIO` is
  `<<sysPasseren(mut), beginIO>>`, `handleDeviceInt` is
  `<<sysVerhogen(sync), releaseDevice>>`, termination is a stack of
  `terminateProcess`/`terminateChildren` frames that ends in `scheduler`. Blocking
  replaces the stack by `<<scheduler>>`, which is exactly what makes the rest of
  the handler disappear in the code.
* `cpu` is the processor: user code, kernel code (interrupts masked), one of four
  points of the idle loop, or stopped. `fault` is a kernel access through NULL,
  `timerfault` the one of the local timer in the idle loop, and `spin` the scheduler's
  loop with a negative soft block count.

The local timer counts in user and in kernel code. In user code its interrupt ends the
slice (`timerInUser`). In the kernel it stays pending until `dispatch` loads the timer
again (scheduler.c:35). If there is nothing to dispatch, the idle loop stops the count
(`STATUS_TE`, scheduler.c:19) and unmasks the interrupt with the same `setSTATUS`, so it
is taken there and then, before any device (exceptions.c:76): `timerInIdle` is an
alternative to `idle` at that point. Two cases follow from `g_current_process`:

* `NULL`, after a block: the handler copies through the null pointer
  (`timerWithoutCurrent`), and the machine stops in `timerfault`.
* the PCB that SYS2 has just freed: `insertProcQ` takes it off the free list and puts it
  in the ready queue with the context of the idle loop (`timerRevives`). The scheduler
  dispatches it, and its LDST is back in the idle loop. When the loop later finds a
  process, the PCB is in no list: it is leaked.

Hence `Live`, the PCBs off the free list, and `Processes`, those of them that do not
hold a context of the idle loop, are different sets. Counts, tree, life cycle and "no
process is lost" are about `Processes`; `NoPcbLeaked` is about `Live` and is false.
`SliceMayHaveEnded` says that the timer is not taken a second time for the same PCB: the
handler calls `scheduler()` with the timer off, which is then the status the loop
restores. In one case the model allows more than the code: a freed PCB that was put in
the ready queue this way and was later blocked by the baton of a device interrupt in the
idle loop (programs that share devices) leaves `g_current_process` at `NULL` with the
timer off, and the model still lets the slice have ended.

The constant `Client` says what programs may do beyond the discipline of
`test/p2test.c`: terminate processes that are not ancestors (`TERM_OTHER`) or that
wait for a device (`TERM_IN_IO`), terminate by a pid that is no longer in use
(`STALE_PID`), use a device another process uses (`SHARE_DEVICE`), call DOIO on a bad
address (`BAD_ADDRESS`). `MaxSoft` bounds `g_soft_block_count` from above and
`g_process_count` from below, which the code can leak, so that the state space is
finite: it is in the guards of CLOCKWAIT and SYS2 only.

SYS8 returns the support structure given at creation; SYS6 is in `CpuTime`, SYS9 and SYS10 in `Namespaces`. None
changes a variable of `Nucleus`.

### Interrupts

`interruptHandler` works off a snapshot of the cause register by priority; the
device is found in the bitmap at the time of handling, the half of a terminal by
the transmitter's status; `ackDevice` ends the interrupt. Addresses and ranges are
the numbers of `pandos_const.h`. The effects of the handlers on processes are in
`Nucleus`; there, simultaneous interrupts come in any order.

### ProcLife

Processes are created ready, dispatched from the head of a FIFO queue, preempted to
its tail, block only while running, and become ready only from a block and behind
the others; a process whose termination has begun ends before anything else is
scheduled. `Nucleus!LifeCycle` maps `running` to the current process if it is not
a process, `ready` to the ready queue unless the PCB of the idle loop is in it (it is
then alone there), and `dying` to the processes on the termination stack. So a PCB may
come back to the ready queue in the idle loop, but the process it was does not.

### Lists, ListMachine, HListMachine

A memory is a record of functions, one per pointer field, over heads and entries
alike. Each C function is an operator from memory to memory whose `EXCEPT` makes the
assignments in the order of the source. A `pprev` is a pointer to a pointer and is
represented by the node or head that contains it. `list_for_each` is the walk itself,
which shows too many places if the links make it endless. The two machines apply
every operation wherever its comment in `list.h` allows it: an entry is added only if
it is in no list, `list_del` leaves null links, and only `list_delete_safe` and what
uses it may be applied to an entry that is in no list. One comment is not followed:
`hlist_del` is said to leave the node "in hashed state" (list.h:853), but it sets `pprev`
to `NULL` (list.h:860), so that `hlist_unhashed` is true, as after `hlist_del_init`. `NodeTestsAgree`
states what the code does, `DeletedStaysHashed` what the comment says.

### Phase1 and Queues

The entries of the tables are the nodes. `p_list` is one memory for the free list, the
ready queue and the queues of all descriptors, as the one link in the PCB is; `p_sib`
holds the child lists; `s_link` the buckets. Static memory is null until the code
initialises it, so an insertion in a list that has never been initialised would show.
The hash is computed (`hash_32` with the width of a word and the multiplier as
constants; `shl` is `1 << n`). Heads, entries and `NULL` have addresses of their own
(`AddressAssumption`); the keys are numbers of the width of a word (`TableAssumption`). `result` is the last call with its arguments and what it returned, so that the refinement
matches each call with the same call of `Queues` and compares the results.

The calls are those the nucleus makes: `MayFree`, `MayReady`, `MayBlock` and `MayAdopt`
in `Queues` are its discipline (what is freed has been taken off its semaphore and out
of the tree, what is queued is not blocked, what gets a parent has no children).
Everything else, such as freeing a PCB that is still in the ready queue, freeing it
twice, or `outChild` of a PCB whose parent has been reused, is left to the caller's
whim and must come out as in `Queues`.

### Namespaces

One type of namespaces, as in the code. Creation, termination of a tree, allocation
and release of NSDs and moves of a tree in any order; SYS9 and SYS10 are functions of
the state, checked in every state for every size of the array. Termination of a tree
is one step here (`Nucleus` has its steps). The code never checks that a namespace
that is freed is empty: the guard of `freeNamespace` is the caller's.

### CpuTime

Ticks of the clock between any two steps. Of the handlers only the order is kept in
which they read the clock, change `g_current_process` and write `p_time`; which call
blocks is left open. `paid` is what each process owes by DOCUMENTATION.md:113 (system
calls are paid, interrupts are not); `caught` are the processes that a P or V of an
interrupt handler has blocked. The local timer in the idle loop (`timerInIdle`) brings the
processor back to the idle loop by way of the scheduler and LDST; with no current process
the machine stops.

## 3. Runs

Instance of all `Nucleus` runs: three PCBs (a parent with two children or a chain of
three; two processes besides the running one), one program semaphore with initial
value 0 or 1, one device. Three processes are what it takes for a third process to
be hit by an interrupt that concerns two others, for two waiters in a queue, and for
a tree of depth three.

| run | question | result |
|---|---|---|
| `disciplined` | with disciplined programs: is no process lost, are the counts and the tree exact at every step of a termination, does every waiter wait for a reason, do device registers, mutex and waiting process agree, are results delivered, does the machine stop only when stuck or on the local timer of the idle loop, does `g_soft_block_count` miss nobody, is the life cycle implemented, are the invariants of the proofs (`DisciplineInv`) invariants? `MaxSoft` = 3 | holds, 324 thousand states |
| `any_client` | with any programs, stale pids included: are the lists exclusive, do the descriptors suffice, is no command overwritten, does the kernel return only to live processes, are devices with a free mutex idle, are `IInv` and `MutexInv` invariants? `MaxSoft` = 2 | holds, 3.2 million states |
| `liveness` | does every ready process run, every clock wait end, every I/O end, unless the local timer stops the machine in the idle loop? No program semaphore (nothing forces a program to signal one), no symmetry | holds, 300 thousand states |
| `interrupts` | two disks, a printer, a terminal, errors on a disk and the receiver, simultaneous and late interrupts | holds, 16 thousand states |
| `lists` | two circular lists and two buckets over four entries: do the walks in both directions, the tests on single links and the `pprev` pointers agree with the sequences after any operations? | holds, 287 thousand states (536 of each machine, all pairs) |
| `phase1` | three PCBs, two descriptors, three semaphores of which two collide in a table of two buckets: do the pointers implement `Queues`, is every PCB in one circle, every descriptor free or in its bucket? At most two PCBs have a parent | holds, 12 thousand states up to symmetry and the last call |
| `namespaces` | four processes, two NSDs: counts and arrays of SYS10, agreement with SYS9, moves of whole trees, accounting of NSDs | holds, 5 thousand states up to symmetry |
| `cpu_time` | three processes, a clock modulo 3 that wraps around at every point: does each process pay for its own time only? | holds, 6.1 million states |

`any_client` is where the branches fire that only undisciplined programs reach: the
baton, the interrupt for a terminated process, PANIC in DOIO.

Bounds of the new instances. Four entries make two non-adjacent, two adjacent, first
and last entries and ranges in the middle of a list. `phase1` has fewer descriptors
than PCBs (the code has as many) so that `insertBlocked` fails and the failure can be
compared with `Queues`; two keys in one bucket make collisions, removal from the middle
of a bucket and reuse of a descriptor under another key; three PCBs with two of them
children make siblings, chains and grandparents. Four processes in `namespaces` are a
chain child of another namespace, grandchild of the same, with a sibling. A clock
modulo 3 distinguishes an interval charged once, twice and not at all; a whole turn of
the clock between two readings is lost in the code and in `paid` alike.

PCBs (and in `phase1` descriptors) are declared symmetric where no definition picks one
by its identity: `Phase1!Init` takes the tables in every order for that reason. `phase1`
also has a view without `result`, which no action reads; the results of all steps are
still compared with those of `Queues`. In
`Namespaces` the NSDs enter their free list in one fixed order, so only the processes
are symmetric.

Runs that show a disagreement between the code and its documentation:

| run | what happens |
|---|---|
| `idle_timer` | the slice ends while the last process that can run is being blocked (by a DOIO or a CLOCKWAIT, say, with an empty ready queue): the idle loop takes the interrupt with `g_current_process` at `NULL`, and the kernel copies the state through it |
| `soft_count` | terminating a process in clock wait does not decrement `g_soft_block_count`; the machine then idles where it should PANIC |
| `shared_device` | the baton: the interrupted process is blocked in place of the one whose I/O was started, which is in no queue any more |
| `terminate_other` | SYS2 on a process that is no ancestor: the caller is never scheduled again |

Each is reached within the documented system calls. `idle_timer`, like `LeakedPcb.cfg` below,
needs no undisciplined program, only a slice that ends within the instructions of a system
call; `setTIMER` before the idle loop, or a test of
`g_current_process` in `handleLocalTimer`, would exclude both. The properties violated
by undisciplined programs hold in `disciplined`.

Further configurations are not part of the regular runs; TLC reports a violation
in each, and they document further disagreements:

| configuration (module) | what happens |
|---|---|
| `LeakedPcb.cfg` (`MCNucleus`) | the slice ends during SYS2 while another process waits for a device: the freed PCB is put in the ready queue, dispatched into the idle loop and then forgotten; it is neither free nor in any list, and the process table is one entry smaller |
| `WholeTree.cfg` (`MCNamespaces`) | SYS10 stops at the first process of another namespace and misses the processes of the caller's namespace below it |
| `HashedState.cfg` (`MCLists`) | after `hlist_del` a node counts as unhashed, contrary to its comment |
| `ClockWait.cfg` (`MCNucleus`) | `g_pseudo_clock` starts at 1, so the first CLOCKWAIT before the first tick does not block, and leaks one soft block |
| `IdleCurrent.cfg` (`MCNucleus`) | after SYS2 the idle loop runs with `g_current_process` at the freed PCB |
| `SyncReset.cfg` (`MCNucleus`) | a `sem_sync` of -1 does not return to 0: V on -1 blocks the interrupted process |
| `StalePid.cfg` (`MCNucleus`) | SYS2 with the pid of a process that has ended decrements `g_process_count` once more: the machine may HALT with processes left |
| `SecondTerminal.cfg` (`MCInterrupts`) | `TERMREG_END_ADDR` covers one terminal: DOIO on the others PANICs |
| `TransmitterError.cfg` (`MCInterrupts`) | a transmitter that ends with an error is served as the idle receiver |
| `InterruptTime.cfg` (`CpuTime`) | a process blocked by a P or V of the device interrupt pays for the handler |

### Fairness

* Kernel steps are weakly fair: the processor does not stop in kernel code.
* Interval timer and device interrupts are strongly fair: a pending interrupt is
  latched by the hardware and taken when interrupts are enabled, which happens again
  and again but not continuously.
* The time slice (`TimeSliceEnds`, about `timerInUser`): each dispatch loads the local
  timer and it runs on during system calls, so if user code runs again and again
  without any further dispatch the timer interrupt comes. Processes that always give up
  the processor earlier never see it. That a slice ends in the kernel, as `timerInIdle`
  needs, is never required: it may happen and may not.
* Devices end their operations.
* Nothing is assumed of programs: they may compute for ever.

## 4. Proofs

`NucleusProofs` holds, for any finite set of PCBs, any sets of semaphores and
devices, any `Client` and any bound:

| theorem | states |
|---|---|
| `Invariance` | `Spec => []IInv` |
| `TypeCorrect` | `Spec => []TypeOK` |
| `ListsAreExclusive` | `Spec => []ListsExclusive` |
| `SemAddIsTheQueue` | `Spec => []SemAddMatchesQueue` |
| `RunningIsLive` | `Spec => []CurrentIsLive` |
| `SemdsSuffice` | `Spec => []SemdNeverExhausted` |

`CpuTimeProofs` holds, for any set of PCBs and a clock of any width:

| theorem | states |
|---|---|
| `TimeIsOwn` | `Spec => []ChargedUnlessCaught` |

Assumptions: the PCBs are a finite, non-empty set, `NULL` is neither a PCB nor a
semaphore address, `Client` is a set of features and the bound is a positive number;
`WRAP` is a positive number.

`ListsExclusive` is not inductive. A process that blocks must be in no queue, which
needs `SemAddMatchesQueue`; freeing a PCB must not leave it blocked, which holds
because `terminateProcess` has taken it off its semaphore before its children are
visited (`OffSemaphore`, about the frames of the stack); and what blocks, is
preempted or gets a child must be a process and not a freed PCB. The last one is
the delicate part: after SYS2 `g_current_process` does point to a freed PCB. It is
harmless for the lists because termination always ends in the scheduler
(`TerminationEndsInScheduler`) and interrupts of the idle loop do not return to the
process: `CurrentIsLive` says that the current process is one of `Processes` whenever
the processor is in user code or will return to it. Where an interrupt in the idle loop
does block the stale process, or the local timer makes it ready, `list_delete_safe` takes
its PCB off the free list, so the lists stay exclusive even then. What goes wrong is
another matter: a PCB without a process is dispatched or leaked.

`IInv` is the conjunction of these parts. The proof has one lemma per action; the
lemmas on `removeBlocked`, `insertBlocked` and the stack are shared. `SemdsSuffice`
then is a counting argument: `p_semAdd` maps the blocked processes onto the
semaphores in use, and the current process is not among them.

`ChargedUnlessCaught` compares `paid` with `p_time` plus what SYS6 would add. It
needs the types and the facts about the current process in `TimeTypeOK`: there is one
while the processor executes on behalf of a process, and it is never in a queue, not
even when it is the freed PCB that SYS2 leaves behind, so that the time charged to it
in the idle loop is charged to no live process. `TimeInv` is both. The arithmetic is in
two lemmas: a tick between two readings of the clock is charged once even if the clock,
the difference or the sum wraps around (`TickCharged`), and right after a reading
nothing has passed (`NothingPassed`); one lemma per reading of the clock uses them.

### Devices under any programs (`NucleusProofs`, second part)

| theorem | states |
|---|---|
| `MutexInvariance` | `Spec => []MutexInv` |
| `CommandsAreSafe` | `Spec => []CommandOnlyToIdleDevice` |

No hypothesis on `Client`. `CommandOnlyToIdleDevice` speaks of the moment before a
command; what makes it true is who has the mutex, over many steps: DOIO finds the
device idle because a free mutex means an idle device; while the device works the
mutex is 0; the interrupt keeps the mutex at 0 until it gives it to the next process in
line or finds none. `MutexInv` says this, with the shapes the call stack can have
(`AnyStack`) because "about to give a command" and "about to pass the device on" are
frames. Neither sharing a device, nor the termination of the process in I/O, nor the
baton that blocks the wrong process makes the mutex free too early.

### What depends on the programs

Each theorem has the weakest restriction of `Client` found to suffice; where dropping
it makes the property false, a run of section 3 shows how.

| hypothesis | programs do not | why it is needed |
|---|---|---|
| `IoClient` | share a device, or terminate a process that waits for one | `shared_device`: the baton blocks the wrong process; a terminated waiter leaves `sem_sync` at -1 and the device working for nobody (`SyncReset.cfg`) |
| `LifeClient` | besides, use the pid of a process that has ended, or terminate a process that is neither themselves nor an ancestor | `StalePid.cfg`: the process is counted out twice; `terminate_other`: the caller is lost |
| `Client = {}` | besides, call DOIO on an address without a device | that PANICs at once |

| theorem | module | hypothesis | states |
|---|---|---|---|
| `IoInvariance` | `NucleusProofs` | `IoClient` | `Spec => []IoInv` |
| `DevicesConsistent` | | | `Spec => []IoStateConsistent` |
| `WaitsAreExplained` | | | `Spec => []WaitersExplained` |
| `ResultsDelivered` | | | `Spec => []IoResultDelivered` |
| `TreeInvariance` | | `IoClient` | `Spec => []TreeInv` |
| `NoOrphansLeft` | | | `Spec => []NoOrphans` |
| `SoftCountSuffices` | | `IoClient` | `Spec => []SoftInv` |
| `RunInvariance` | | `LifeClient` | `Spec => []RunInv` |
| `NobodyLost` | | | `Spec => []NoProcessLost` |
| `CountInvariance` | | | `Spec => []CountInv` |
| `CountIsExact` | | | `Spec => []ProcessCountExact` |
| `LifeCycleImplemented` | | | `Spec => LifeCycle` |
| `DisciplineInvariance` | | | `Spec => []DisciplineInv` |
| `StopsWhenStuck` | | `Client = {}` | `Spec => []StopsOnlyWhenStuck` |

The properties hold between operations, the invariants have to hold half way through
them. So each part of `Discipline` names the steps of an operation by the stack of
frames that is left to execute, and says what the state is there:

* `IoInv`. A DOIO goes through `Asked`, `Claimed`, `Commanded`, and its interrupt
  through `Signalling` and `Releasing`. In `DeviceFree` nobody uses the device; in
  `DeviceUsed` the process that waits is alone on the sync semaphore, except between
  the command and its block, and between its wake-up and the release of the mutex.
  `WaitersExplained` needs that only the process that made the call ever blocks: a P or
  V that blocks is always executed for a system call (`SyscallStack`), the V of the
  interrupt never does, as the sync semaphore is 0 in it. `TerminationSparesIo` carries
  the programs' restraint through the steps of a termination.
* `TreeInv`. While a tree is terminated its parents have children still to be freed.
  What is invariant is: a process is among the children of its parent until its own
  termination begins, and a freed PCB has no children. The local timer in the idle loop
  takes a PCB off the free list without touching the tree: it has no children, and what
  is left in its `p_parent` is nobody's business, as it is none of `Processes`.
* `RunInv`. Whoever leaves the processor to the scheduler is saved somewhere, or has
  ended: where the scheduler looks for another process, idles, or handles an interrupt of
  the idle loop, the current process is none of `Processes` (`SchedulerHasNoCurrent`).
  After SYS2 this holds because the current process is in the tree that is being
  terminated as long as the termination is not over (`CurrentInTree`), by an induction
  along the child links that `Subtree` makes possible without recursion. That the timer
  and the interrupts of the idle loop do no harm to processes is `IdleLoopApart`: a PCB
  that holds a context of the idle loop is never blocked, dying, a parent or a child, and
  when it is ready it is alone in the ready queue and about to be dispatched.
* `CountInv`. A process is counted out when it is freed, so the stack must not hold it
  twice (`DyingOnce`), nor something that is no process. Both follow from the tree: what is
  pushed is a child, and a child is not dying. `RunInv` comes first because the count is of
  `Processes`: the local timer takes a PCB off the free list without counting it, and
  `SchedulerHasNoCurrent` is why that PCB is no process before and after.
* `SoftInv`. `g_soft_block_count` is at least the number of processes in `Counted`: those
  blocked on a sync semaphore or the clock, plus the one that is about to block, minus
  the one that is being woken. Equality is false (run `soft_count`).
* `StopsOnlyWhenStuck` then follows at the step that stops: with an empty ready queue,
  no current process and the count at 0, each process left is blocked, and on a
  program's semaphore. `timerfault` is the exception it states: with disciplined programs
  it comes only from `timerWithoutCurrent`, with an empty ready queue and somebody
  to wait for.

`LifeCycleImplemented` takes each step of the nucleus to a step of `ProcLife`, or to a
stutter. The local timer in the idle loop is a stutter, and so is the dispatch of the PCB
it put in the ready queue. It needs the invariants: a wake-up is a `Wake` of the head, `dispatch`
takes a process or that PCB (`IdleLoopApart`), a block is one of the running process, and the pops of the
termination stack are ends of dying processes.

### Interrupts (`InterruptsProofs`)

For any set of installed devices.

| theorem | states |
|---|---|
| `InterruptsInvariance` | `Spec => []IntInv` |
| `InterruptsTypeCorrect` | `Spec => []TypeOK` |
| `OverlapIsSafe` | `Spec => []DeviceNumbersDistinct` |
| `ServesOnlyEnded` | `Spec => []ServesEndedOperation`, if no transmitter is in `MayFail` |

The address arithmetic is in `Numbers` and `NumbersDistinct`: for the registers on
which an operation can be started, `resolveDeviceAddress` is injective. The invariant
adds that operations are only under way on such registers, that only registers in
`MayFail` end with an error, and that every line left in the snapshot of the cause
still has a device or timer behind it. The hypothesis of the last theorem is the
disagreement `TransmitterError.cfg` shows.

### Lists (`ListLemmas`, `ListProofs`)

For any number of heads, entries and buckets.

| theorem | states |
|---|---|
| `LinksInvariance` | `Spec => []LinksInv` |
| `ListWalks` | `Spec => []WalksAgree` |
| `ListTests` | `Spec => []TestsAgree` |
| `ListsHarmless` | `Spec => []OffListEntriesHarmless` |
| `ListsChecked` | the same three for `BothSpec`, the specification of the run `lists` |
| `HashInvariance` | `Hash!Spec => []HashInv` |
| `HashWalks` | `BothSpec => []BucketsAgree` |
| `HashNodeTests` | `BothSpec => []NodeTestsAgree` |

`Spec` is that of `ListMachine`, `Hash!Spec` that of `HListMachine`; a step of `BothSpec`
is a step of one and leaves the other alone (`BothRefines`, `BothRefinesHash`).

The properties speak of walks; the invariants speak of single links. A list of n
entries has the places 0 to n + 1, of which the first and the last are the head, and it
is right when the link of each place leads to the next one and back (`Circle`) and no
node has two places (`Ring`). `LinksInv` says so of every list, that no entry is in two,
and that an entry in no list points to itself or, after `list_del`, to `NULL`. Each
operation is treated twice. `ListLemmas` gives the links it writes (`LinkBetween`,
`ReplaceLinks`, `BulkLinks`, `CutLinks`, ...; the order of the assignments and the cases
where two of the nodes coincide are in there) and shows that they make the new circle
(`AddCircle`, `RemoveCircle`, `ReplaceCircle`, `BulkCircle`, `RotateCircle`, `CutCircle`,
`SpliceCircle`). `ListProofs` adds that the other lists do not notice (`OneList`,
`TwoLists`), with one lemma per action of the machine. `list_swap` is not treated as a
case of its own: it is two replacements and a deletion, and `SwapStep` shows that they
exchange the entries, neighbours included.

From the links to the walk: `Visit` is a recursive function, and what it returns on a
chain of any length is `VisitWalk`. Induction theorems take an operator as a parameter
and cannot be used here, so the lemma is proved by a least counterexample: among
the tails of the chain on which the walk goes wrong take the shortest. That a non-empty
set of numbers has a least element is `NatMin`, from the well-foundedness of the subset
relation on finite sets, which the library states without such a parameter.

`HashInv` is the same for the buckets, with places that end in `NULL` and with `pprev`,
which names the place before a node whether that is a node or the head; a fake points
to itself. `hlist_del` needs nothing but `pprev`, which is why `HRemoveStrand` never
mentions a bucket until it has found the place.

### Namespaces (`NamespaceProofs`)

For any finite tables of PCBs and NSDs.

| theorem | states |
|---|---|
| `TreeInvariance` | `Spec => []TreeShape` |
| `TreesMove` | `Spec => TreeMovesTogether` |
| `NsdsKept` | `Spec => []NsdsAccounted` |
| `ChildrenCounted` | `Spec => []ChildrenExact` |
| `ParentsSee` | `Spec => []ParentSeesChild` |

`TreeShape` says that `p_child` is the inverse of `p_parent` and that there is no cycle.
The latter without paths: every set of processes has a member whose parent is not in it
(`Rooted`). Creation and termination keep this because of what they do to such a set.
From it, the tree of a process is the process with the disjoint trees of its children
(`TreeDown`, `TreeDisjoint`, `TreeAcyclic`), so a child has a smaller tree.

`addNamespace` and `getChildsByNamespace` are recursive functions with the depth of the
recursion as an argument, which starts at the number of PCBs; the C functions have no
such limit, and none is reached: a walk whose depth is at least the size of its tree is
complete (`ReachTree`, `CountedFinds`, by the least depth at which it is not).

What the walk of SYS10 does to the array is `Filled`: the array so far, with as much of
the sequence it finds behind it as there is room for. Two walks one after the other fill
the array with the two sequences joined (`FilledThen`); that makes the order of the
children, the count and the array independent of each other. `Seen` is the set of
processes the pruned walk should find, `FindsStep` and `FindsNone` are its two cases.

`NsdShape` says that the circles of the two heads share out the NSDs and that whatever
a process has as its namespace is in the second. It rests on the circles of `ListLemmas`;
`freeNamespace` keeps it because nobody has the namespace any more, which is the caller's
promise.

### Phase 1 (`Phase1Proofs`)

For any finite tables of PCBs and descriptors, any keys, any multiplier, width of a
word and size of the hash table: collisions, a table of descriptors that is smaller
than the one of PCBs and an `insertBlocked` that fails are all included.

| theorem | states |
|---|---|
| `PointersKept` | `Spec => []IInv` |
| `LinksAlwaysSound` | `Spec => []LinksSound` |
| `DescriptorsAlwaysAccounted` | `Spec => []DescriptorsAccounted` |
| `PointersImplementQueues` | `Spec => ImplementsQueues` |

`IInv` has three layers.

* Links. Each of the three memories of circular lists is `Listed`: its heads are the
  nodes whose links are not null, every list is a `Circle` without repetition, no entry
  is in two, an entry in none points to itself. The buckets are `Strands`.
* Descriptors (`Sems`). One that is hashed is in the bucket of its key, no two have the
  same key, its queue is not empty and holds processes whose `p_semAdd` is the key. All
  others are on the free list with an empty queue, and a process with a `p_semAdd` is in
  the queue of such a descriptor.
* Processes (`Tree`). The children in a list have that list's owner as `p_parent`; a free
  PCB has neither children nor a place among siblings. The converse is false on purpose:
  `removeChild` and `freePcb` leave `p_parent` behind, and a PCB whose parent was freed
  and allocated again looks itself up in the wrong list. `StepOutChild` shows that it
  then is not found, so that `outChild` returns `NULL`, as in `Queues`.

`LinksSound` and `DescriptorsAccounted` follow from `IInv`, but neither is inductive:
`list_del` is safe only because the lists are disjoint, and a descriptor may be freed
only because no other one has its key.

A call is followed through three views. From memory to lists the lemmas of `ListLemmas`
do it once for all memories (put an entry in front or at the end, take it out, take the
first, initialise a head). From lists to semaphores, `Served` is the queue of the
descriptor that owns a key; a process joins an existing queue (`JoinSem`), opens one
with a descriptor that was free (`NewSem`), leaves one (`LeaveSem`) or leaves it empty,
upon which the descriptor is unhashed and freed (`LeaveLast`). That `find_sem` finds the
owner of a key, however many descriptors share the bucket, is `FindOwner`; that the
hash is always the number of a bucket, `HashInBuckets`. From there to the call of `Queues`
with the same result are the lemmas `Step...`, one per function.

The last correspondence is by counting: `insertBlocked` fails in `Phase1` when the free
list of descriptors is empty, in `Queues` when as many semaphores as there are
descriptors have a non-empty queue. `DescriptorsLeft` shows that these are the same, by
the bijection of hashed descriptors and semaphores with a queue. `Nucleus` counts
descriptors in this way.

### Only model-checked

* The liveness properties: fairness and ENABLED are out of the provers' reach.

## 5. Not modelled

* `memset` and `memcpy` (`phase1/utils.c`), sequential copies whose effect the models
  use where they are called; the contents of registers and I/O buffers; pass up to a
  support structure (it loads another context of the same process and changes nothing
  of the nucleus).
* The `_rcu` variants, the loop macros over entries (`container_of` applied to the
  plain loops) and the unused hash table macros of `lib/`; the test programs.
* The kernel stack: interrupts of the idle loop start on the stack the interrupted
  scheduler uses. The loop keeps nothing there that it needs after `WAIT`;
  `scheduler_old_status` is a global.

## 6. Where it stands

The nucleus with the refinement of the life cycle, the choice of the interrupt, the lists,
phase 1 with its pointers refined to queues, namespaces and processor time are modelled
and checked. Every safety property, action property and refinement the passing runs check
is also a theorem; only the four liveness properties rest on the runs alone. The code does
not keep two of its own promises with disciplined programs and callers: the local timer of the
idle loop (`idle_timer`, `LeakedPcb.cfg`) and the state in which `hlist_del` leaves a node
(`HashedState.cfg`).
