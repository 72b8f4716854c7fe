# Formal models of the Autograder repository

The repository holds the autograders of an operating-systems course together
with the systems they grade: instructor solutions for POSIX threads
(`project_1a`), Nachos threads (`project_1b`), Nachos multiprogramming
(`project_2`) and Nachos demand paging (`project_3a`, `project_3b`), each inside
its copy of the Nachos kernel and machine simulator. This directory holds TLA+
models of the parts of that code whose correctness depends on interleaving,
ordering and bookkeeping across processes, the TLC configurations that
model-check them, and proofs for TLAPS.

How to run: `tlc -config MCHashChain.cfg MCHashChain.tla` (likewise for the other
configurations, see the table of runs for which module each belongs to) and
`tlapm VirtualMemoryProofs.tla` (likewise for the other modules named `*Proofs`).
Every leaf has a factor of two to spare (`tlapm --stretch 0.4` proves all of them);
`MipsProofs` and `HashChainProofs` take a minute or two each, the others less.

Paths below are relative to `src/`. `H` is `project_3b/source/harness_code`,
`P` is `project_3b/submission`.

## 1. Inventory

Files appear in several copies (`project_X/` and `project_X/source/`, the
harness and the graded submission). A model names one copy, the one the build
of that project compiles: for project_3b that is `H` with
`virtualmemorymanager.cc`, `addrspace.cc` and `addrspace.h` taken from `P`.

### Demand paging (`P/virtualmemorymanager.cc`, `P/addrspace.cc`)

- State: the bitmap of swap slots, the frame table `physicalMemoryInfo` (space
  and page of each frame), the clock hand `nextVictim`; per address space a page
  table and the swap offset of each page; the bitmap of physical pages
  (`MemoryManager`); use and dirty bits, set by `Machine::Translate`.
- Operations: `swapPageIn` on a page fault (second-chance replacement, write-back,
  load), `releasePages` on exit, both constructors of `AddrSpace` (exec, fork),
  the kernel's copies to and from user memory (`userReadWrite`).
- Interactions: system calls create and delete spaces; the machine raises page
  faults and sets bits; one process's fault changes another's page table.
- Hard: which page a frame holds is recorded in three places; a page can be
  stolen between any two instructions; the order of write-back, overwrite and
  bit changes; the swap file and memory running full.
- Correct when: the three records agree; slots are neither shared nor leaked; a
  clean page equals its slot; a fault is always served and changes nobody's
  contents; programs see private arrays of pages.

### Processes (`H/userprog/processmanager.cc`, `exception.cc`, `pcb.cc`)

- State: a bitmap of ids, a count per id of its process and its joiners, the last
  exit status per id, a lock and a condition variable per id, the PCB's id.
- Operations: `getPID`, `clearPID`, `join`, `broadcast`, `getStatus`, called by
  Fork, Exec, Join and Exit.
- Interactions: `Join` sleeps on a condition that `Exit` broadcasts; ids are used
  again; Fork, Exec and Exit also create and delete address spaces.
- Hard: status tested before the lock is taken; ids reused while joiners are on
  their way out; ids running out; preemption inside Join when the timer runs.
- Correct when: ids are counted exactly, a join ends after the exit it waits for
  and returns that exit's status, nobody stays asleep.

### Readers/writer lock (`project_1a/rwlock.cc`, `project_1b/rwlock.cc`)

- State: three counters, a lock, two condition variables.
- Operations: `startRead`, `doneRead`, `startWrite`, `doneWrite`.
- Hard: Mesa wake-ups (a woken thread competes again), a signal spent on the wrong
  thread, spurious wake-ups of pthreads, who is counted while waiting.
- Correct when: writers exclude everybody, waiting writers go before new readers,
  no wake-up is lost.

### Nachos threads and synchronisation (`project_1b/thread.cc`, `scheduler.cc`, `synch.cc`, `interrupt.cc`)

- State: the current thread, the ready list, the thread to be destroyed, the
  queues of semaphores, locks and condition variables.
- Operations: Fork, Yield, Sleep, Finish; P, V; Acquire, Release; Wait, Signal,
  Broadcast.
- Hard: a thread woken from a queue has not run yet and may be overtaken; queues
  are hand-linked lists; Wait has to release and sleep in one step.
- Correct when: each thread is in exactly one place, no V and no Release is lost,
  lock and condition variable are a monitor, the ready list starves nobody.

### Hash chain (`project_1a/hashchain.cc`, `project_1b/hashchain.cc`)

- State: an array of linked lists of entries; per bucket (or for all) a
  semaphore, a lock or a readers/writer lock.
- Operations: `get`, `put`, `remove`, `increment`, each cut by calls of `YIELD()`.
- Hard: an entry is deleted, the processor given up, and only then the entry
  unlinked; `increment` is a get and a put.
- Correct when: the map is linearizable and nobody looks at a deleted entry.

### Processes and open files of project_2 (`project_2/submission/`)

- State: ids and PCBs (thread, parent, exit status, descriptors), who sleeps on
  which id, free frames, the system's table of open files with use counts.
- Operations: Exec, Fork, Join, Exit, Halt, Open, Close, Read, Write.
- Interactions: Exit frees memory, publishes a status, waits for the children and
  wakes those who wait; Join and a parent's Exit free ids and PCBs; Fork copies
  descriptors that point into the system's table.
- Hard: an id can be freed while its process still waits for its own children;
  ids and table entries are used again; ids, memory and the table run out half way
  through a call.
- Correct when: a program keeps its id, PCB and open files; frames are conserved;
  no sleeper is forgotten; if programs end, the machine stops.

### MIPS processor (`project_2/harness_code/machine/mipssim.cc`, `machine.cc`, `translate.cc`)

- State: registers with the load in progress, PC and NextPC, memory, valid bits.
- Operations: one instruction, a page fault, a system call, an interrupt that may switch processes.
- Hard: an instruction that faults is executed again; a load takes effect an
  instruction later, across faults, calls and switches; branch delay slots.
- Correct when: a program that respects the delay slots cannot tell.

### `run_autograder` of project_3b

- State: what Gradescope kept of the latest submission: count, time, verdicts.
- Operations: refuse, or build, test and grade.
- Hard: times compared by parts of a date; a variable that survives from one test
  to the next; a loop that polls twice a round and keeps one answer; runs that die leave no results.
- Correct when: the limits hold, and "deadlock" is only said of programs that hang (which the
  code does not keep to in one case, section 2).

### Components without a model

| Component | State and operations | Why not |
|---|---|---|
| `SynchList` (`project_1b/synchlist.cc`) | a queue under a monitor | a list and `NachosThreads`'s lock and condition variable; only the post office removes from it |
| Disk and `SynchDisk` | one outstanding request, request-done semaphore | only the Nachos file system uses them |
| Console, network, `PostOffice` | one outstanding send, unreliable delivery, mailboxes | no graded project builds them; planned |
| Nachos file system | free map, headers, directories | graded projects build with `FILESYS_STUB`; planned |
| Demand paging of project_3a | as project_3b, the hand moves on after an eviction | a variant of `VirtualMemory`; planned |
| Exercises, shell, COFF tools, statistics | data transformation and process plumbing | nothing a state model shows |

## 2. Modules

| Module | Models | Abstract or detailed |
|---|---|---|
| `AddressSpaceMemory` | what paging promises: private arrays of pages | abstract |
| `VirtualMemory` | demand paging and address spaces of project_3b | detailed |
| `PagedMemory` | `VirtualMemory` with a history of what programs observe, implements `AddressSpaceMemory` | composition |
| `ProcessManager` | ids, Fork, Exec, Join, Exit of project_3b | detailed |
| `ReadersWriters` | who may be inside a readers/writer lock | abstract |
| `RWLock` | `rwlock.cc`, implements `ReadersWriters` | detailed |
| `AtomicMap` | a map with get, put, remove and increment in one step | abstract |
| `HashChain` | a bucket of `hashchain.cc` on top of `RWLock` (EXTENDS it), implements `AtomicMap` | composition |
| `MesaMonitor` | a lock with a condition variable | abstract |
| `NachosThreads` | scheduler, threads, semaphore, lock, condition variable; implements `MesaMonitor` | detailed |
| `Multiprogramming` | processes, waiting, frames and open files of project_2 | detailed |
| `MipsInstructions` | what each instruction computes, when it traps, what delay slots ask of programs | functions |
| `MipsISA` | a processor without delayed loads and faults | abstract |
| `MipsMachine` | Nachos's simulated processor, implements `MipsISA` | detailed |
| `Autograder` | `run_autograder` of project_3b | detailed |
| `MC*` | small instances for TLC | |
| `VirtualMemoryProofs` | theorems about `VirtualMemory` and `PagedMemory` | proofs |
| `RWLockProofs`, `HashChainProofs` | theorems about the lock, and about the chain under it | proofs |
| `ProcessManagerProofs`, `MultiprogrammingProofs`, `NachosThreadsProofs`, `MipsProofs`, `AutograderProofs` | theorems about the module each is named after (`MipsProofs`: `MipsMachine`) | proofs |

### VirtualMemory

A page table entry is the pair `<<p, v>>`; valid, use and dirty bits are sets of
entries; page contents are single values. `owner` is the frame table,
`nextVictim` the hand, `pageBits` and `swapBits` the two bitmaps, `mainMemory`
and `swapFile` the two stores. `FillFreeFrame`, `Evict` and `FaultHalts` are the
branches of `swapPageIn`: the frame under the hand is free; the hand clears use
bits and stops at a victim; an ASSERT fails or a pointer to no space is
followed. `Load` and `Store` are user instructions on a resident page, and what
the kernel reads from user memory for Write or Exec is a `Load` too. `CopyIn` is the copy of Read, which retries `Translate`;
while it retries nothing else runs (`copyIn`). `NewSpace` is shared by `Exec`
and `Fork`, which differ in what they put on swap. A system call or a fault is
one step, since the swap file is a UNIX file and nothing in these paths gives
up the processor; processes interleave between instructions. `Halt` stands for
an abort of the kernel and ends the model.

`HeapZeroed` chooses what `new` returns for the frame table, which its
constructor does not initialise. With `FALSE` each record may start as a pointer
to nothing, and the first fault may crash; what needs the initial frame table is
therefore claimed for `HeapZeroed` only. `Calls` says which system calls the
programs of an instance make.

### PagedMemory

`last` records the last observable operation with its result. The refinement
maps `mem[<<p, v>>]` to the frame of a resident page and to the swap slot of any
other; page faults, evictions and write-backs are stuttering steps of
`AddressSpaceMemory`. `PagingInvisible` is full refinement. It holds for
programs that load, store and exec, and the code breaks it for fork and for
Read; `StepsInvisible` covers all four calls and says that every single step
refines provided its pre-state has an exact frame table and clean pages on swap
and that a fork meets no dirty page: the three conditions the defects violate are
the only obstacles.

### ProcessManager

`pc` is where a thread is in Join or Exit, `lock`, `lockQueue` and `condQueue`
are the lock and condition variable of each id. The variable `timer` is chosen once
and for all in `Init`: without it a thread loses the processor only where it sleeps or
returns; with it (`-rs`) also where `synch.cc` re-enables interrupts,
which cuts Join after Acquire, after Wait and after Release. Exit runs with
interrupts off and is cut only when it sleeps for the lock. `Take` is one pass
through the loop of `Lock::Acquire`; `LetGo` is Release, which wakes one thread and
leaves the lock free, in Join and in the `broadcast` of an Exit (`Finish`) alike. `outcome` is a history variable: the status on record when the
process that a thread joins exited. `NoPID` is the case in which `Find` returns -1
and `getPID` writes in front of `processesWaitingOnPID`, which is the last
element of `pcbStatuses`. Using id -1 in Join (ASSERT in `BitMap::Test`) or in
Exit (an array element in front of the heap block) halts the model.
`HeapStatuses` is what `pcbStatuses` holds before it is written.

### RWLock, ReadersWriters

One step takes a call from getting the lock to Release or Wait: only the thread
with the lock touches the counters. Waking moves a thread out of `Rcond` or
`Wcond`; it has to `Acquire` again and re-test. `SpuriousWakeups` adds what
`pthread_cond_wait` is allowed to do, so one module covers both projects.

### HashChain, AtomicMap

Only what a bucket holds matters to its threads, so there is one bucket. Each
step goes from one `YIELD()` to the next; `call` holds a thread's local
variables. Entries are addresses: `new` returns any free one, `delete` frees it
at once, and what is read from freed memory is arbitrary in C++; `ChainSound`
says it is never read. The readers/writer lock is the one of `RWLock`, extended by the steps a thread takes
inside. A call takes effect in the abstract map when a reader has its answer and when
a writer gives the lock back. The coarse scheme and the fine schemes with a semaphore or a lock
let fewer threads in at a time. `hashchain.h` says that increment will "init key to
zero" if it is absent; the code adds to the -1 of a failed get, in `HashChain` and in the abstract map alike.

### NachosThreads, MesaMonitor

One processor: `current` is on it, `ready` is the FIFO list, `doing` tells
in which primitive a thread sleeps. A primitive runs with interrupts off, hence
it is one step up to a Sleep. `SwitchFrom` is `Scheduler::Run` with its
treatment of `threadToBeDestroyed`. `Yield` stands for the call and for the end
of a time slice. `Lock::Lock` leaves `threadHolding` uninitialised; the model
takes it to be no thread of the program. Queues are sequences.

### Multiprogramming

One step is a system call up to where it sleeps: Nachos runs here without its
timer, so locks are never contended. `pc` is "run", or "join" and "exit" for a
thread asleep in `waitFor`; threads without a process are interchangeable, the
first becomes the next one. `Launch` is what Exec and Fork share, `WaitForChildren`
the loop of `waitForChildrenToFinish` from one id to the next sleep, and what
follows it in `doExit`. `Crash` is a NULL pointer followed, `aborted` an ASSERT that fails.
`inherited` is a history variable: the entries of the table whose descriptors a
Fork has copied. What the code does, which properties are worded around:

- A status is published before the children are waited for (`exception.cc:170`), so
  an id can be free, and used again, while its process sleeps. Two threads
  with one id may both take a child: the second follows a NULL PCB
  (`processmanager.cc:107`).
- Status -1 is `NOT_FINISHED`: a process that exits with it is waited for for ever.
- Fork copies descriptors without counting them (`pcb.cc:63`): a Close by parent or
  child frees the entry under the other one.
- Exiting closes nothing, and Open leaks its entry if the process has no descriptor left.
- Exec with too little memory aborts in `allocFrame`, although the constructor meant to fail.
- `Join` follows whatever pointer belongs to the id it is given.

### MipsInstructions, MipsISA, MipsMachine

An instruction is a record as `Decode` leaves it. `MipsInstructions` holds what both machines
share: values, overflow, branches, byte order, and `WellFormed`, what the
R2000 asks of compilers (the instruction after a load does not use its register, no branch
or SYSCALL in the delay slot of a branch). `MipsMachine` adds the load in progress, page faults that start an
instruction again, the kernel's `IncrementPC`, `Mult` by shifts and adds, and interrupts between instructions
(`Switch`), in which other processes may run and take pages away; every way into the kernel finishes the load in progress first, an interrupt through
`CheckIfDue` (`interrupt.cc:324-327`, what the note at `mipssim.cc:571-572` asks for); `MipsISA` has none of these. The refinement shows a register as
loaded while its load is in progress; faults and interrupts are stuttering steps. `DIV` of the most negative word by -1 is undefined in C++ and traps on an x86 host
(`mipssim.cc:200-201`): the simulator ends, with every process in it (`HostTraps`, `HostTrap`), and the abstract machine stops there
too, so `Implements` says that nothing but that division, and what the kernel stops, ends a program. Because values
are shared, `Implements` says nothing on a wrong value in the table itself:
`SRL` and `SRLV` shift a signed int (`mipssim.cc:445-455`) and are modelled so, and `OR`, which
computes `rs | rs` (`mipssim.cc:376`), is left out with the bitwise instructions. A SYSCALL in the delay
slot of a taken branch returns to the instruction after it; `WellFormed` excludes it.

### Autograder

One step is a run of the script. Times are ticks; a date is compared through its day, the
last digit of its month and the time of day, as the slices of the script do. `Poll` is
the loop over a test's program, `Lose` a run that leaves no results. A round of the loop polls the program twice: after the sleep, which is
assigned to `timeout_returncode` (line 136), and in the loop's next test (line 133), which is not. A program is
described by the first poll that sees it ended. If that is the loop's test of a later round, the program is reported as a deadlock although
it ended in time: the code does so, and `VerdictsSound` names it as the only exception. A program that ends before the
first poll leaves the variable as the test before left it, or unset, which ends the run (`Dies`). Refusals
may come too often (from October on, after the 31st of a month, a day later at an
earlier day): nothing promises otherwise, and `LimitsHold` is about grading.

## 3. Runs

A run is a configuration with the module it instantiates. Three spaces or
threads are enough for every pairwise race with a bystander (a second joiner, a
reader against two writers); sizes are chosen so that every resource runs out.

| Run | Module | Properties | Shows |
|---|---|---|---|
| `MCPMPaging` | MCPagedMemory | FrameTableExact, CleanPagesOnSwap, PagingInvisible, FaultsServed, SecondChance, FaultsInvisible | 2 spaces of 2 pages on 2 frames, 4 slots, 2 values; loads, stores, exec. More pages than frames: the hand wraps, victims are clean, dirty and second-chanced; refinement of private arrays. |
| `MCPMCalls` | MCPagedMemory | TypeOK, SwapSlotsExact, StepsInvisible | 3 spaces of 2 pages on 1 frame, 5 slots, all four calls: the last slot is left over, so that exec and fork run out half way; step-wise refinement under the three named conditions. |
| `MCHashChain` | MCHashChain | TypeOK, CountersExact, Exclusion, SleepersHaveAWaker, Implements, WritePriority, Quiesces, ChainSound, Linearizable | 3 threads, 2 keys, 2 entries, spurious wake-ups, deadlock checked: the lock and the list under it. |
| `MCNachosThreads` | MCNachosThreads | TypeOK, EachThreadOnce, SemaphoreWakeups, LockWakeups, ImplementsMonitor, ReadyRuns | 4 threads, semaphore value up to 2: two sleepers, a waker and a thief. |
| `MCProcesses` | MCProcessManager | TypeOK, PidsExact, LockExact, NoEarlyReturn, JoinReturnsStatusOrFailure, WokenReturn | 3 threads, 2 ids, with and without the timer: two joiners of one process, ids that run out because joiners keep them, reuse, contention for the lock of an id. |
| `MCMultiprogramming` | MCMultiprogramming | TypeOK, ProgramsTracked, FramesCounted, SleepersAreWoken, FilesIntact, MachineStops | 3 threads and ids, 2 frames, programs of 1 or 2 pages, 2 files, 2 descriptors per process and 2 entries in the system's table, statuses -1 and 0: memory, ids, descriptors and entries run out, ids and entries are used again, parents exit before and after children. |
| `MCMips` | MCMips | TypeOK, Implements | Programs of 3 instructions over 4 registers of 4 bits: every instruction next to every one of a small set, faults and interrupts anywhere; MULT, MULTU, DIV and DIVU of all pairs of words, the one that traps on the host included. |
| `MCAutograder` | Autograder | VerdictsSound, LimitsHold | 4 ticks a day, 2 days a month, 3 submissions, half an hour of 2 ticks, from August to March: ends of days, months and the year, and October's digit 0. |

Four runs exhibit disagreements between the code and what its comments say:

| Run | Property violated | What happens |
|---|---|---|
| `MCVMExitFrames` | FrameTableExact | The frame table is filled at the hand and cleared at the physical page number; after an exit the two differ. |
| `MCPMForkStale` | PagingInvisible | Fork copies swap slots; what the parent stored since the last write-back is missing in the child. |
| `MCPMReadLost` | PagingInvisible | Read copies into a page without setting its dirty bit; the next replacement drops the data. |
| `MCJoinStatus` | JoinReturnsStatus | The last joiner frees the id and then asks for its status: it gets -1. |

`CHECK_DEADLOCK FALSE` is set where the system may stop: programs may deadlock
by their own use of the primitives (`NachosThreads`), every process may exit,
a halted kernel or machine takes no step, and submissions end.

Bounds. `MaxValue` of `NachosThreads` bounds the semaphore in the guard of `V`; 2 is enough
for a second V before the thread that the first one woke has run. `MaxValue` of `HashChain` is the
value from which keys are no longer incremented; 1 is enough for two increments that must
not overlap. `Start` and `End` of `Autograder` are the times looked at. Words of 4 bits have bytes of
one bit: sign, carry, alignment and the most negative word all occur. `Timeout` is 2 rounds, so five polls: programs end
before the first, between any two and after the last. The other constants are sizes of
the system (frames, slots, ids, threads). With the two spaces of `MCPMPaging` no third one looks on while a page changes hands; the theorems on
paging hold for any number of spaces. The exit and fork cases of an exact frame table with more than one frame are
covered by `FrameTableCorrect` (no exit) and by the run `MCVMExitFrames`, which refutes the rest; forks of clean pages,
reads and exits with more frames by `StepsInvisibleCorrect`.
With two frames only two programs of `MCMultiprogramming` that have not called Exit run at a time; the third thread is
one that has exited and waits for its children. What the theorems of `MultiprogrammingProofs` say holds for any number.

No symmetry is used. `MCMultiprogramming` has a `VIEW`: TLC does not tell states apart that differ only in what neither a step
nor a property looks at. These are the rest of the state once a call has crashed, aborted or halted the machine; the thread and
the descriptors of a process that has called Exit; and the names of files, which no step compares: of a name it keeps whether
the descriptor and its entry agree, as long as no Fork has copied a descriptor of the entry. Without the view the
same run has ten times the states and more.

Fairness.

- `RWLock!FairSpec`: weak fairness of `Acquire`, of the step of a thread that has
  the lock, and of leaving. The lock queues are FIFO in Nachos; pthreads promise
  only that a free lock is taken by someone, hence `Quiesces` is about threads that
  no longer come back. No fairness is assumed of new calls, and spurious
  wake-ups must cease.
- `NachosThreads!FairSpec`: the machine goes on, and `Yield` happens again and
  again if it can. The second part is the random timer that `-rs`
  starts (`project_1b/system.cc`); without it only voluntary yields remain.
- `HashChain!ChainFairness`: that of `RWLock`, and a thread inside goes on; nothing else is assumed of the list.
- `Multiprogramming!FairSpec`: strong fairness of the kernel steps of each thread (the ready list is
  FIFO) and of its Exit. The second is no promise of Nachos but the premise of
  `MachineStops`: *if* every program ends. It also supposes that new programs cease to be
  started, and excepts programs that wait for each other and the status -1.
- `MipsMachine` and `Autograder` are checked for safety only.
- `ProcessManager!FairSpec`: strong fairness of the kernel steps of each thread:
  the ready list is FIFO, so a thread that is ready again and again gets the
  processor. `WokenReturn` uses it without the timer only, where no one can take the lock from
  a woken thread for ever. With the timer it would depend on how time slices
  fall, and TLC refutes it.

## 4. Proofs

Every theorem is about all values of the constants that the named `ASSUME`s of its
module allow; TLC evaluates these assumptions in every run. The properties were
first checked by TLC on the instances of section 3. Every safety property of the passing runs,
the refinements included, is a theorem; PROJECT.json lists them.

**Paging** (`VirtualMemoryProofs`), for all numbers of spaces, pages, frames and slots.

- `TypeCorrect`: `TypeOK` is not inductive, since a fault reads the slot of the
  page and the physical page of the victim; the invariant `TypeInv` adds
  `Located`, that both exist.
- `SwapSlotsCorrect`: `SwapSlotsExact` is inductive together with `TypeInv`. It
  needs no assumption on calls or on the initial frame table.
- `FrameTableCorrect`, `FaultsServedCorrect`: for programs that never exit and a
  zeroed frame table. `FrameTableExact` needs `FreeFramesAhead`: the frames
  never used are those the hand has not reached, so the first free physical
  page is the frame under the hand. That is the fact an exit destroys.
- `SecondChanceCorrect`, under the same two assumptions. A used page can only be the victim
  if the hand passed it on the same fault; a turn meets each frame once (`TurnVisitsOnce`,
  `TurnVisitsAll`, arithmetic modulo the number of frames), so the hand went all the way
  round and every page it met was used.
- `CleanPagesCorrect`, `FaultsInvisibleCorrect`: without exit and Read. A fault
  moves contents between slots and frames; that it changes no page's contents
  takes the slots not being shared, the frames not being shared and clean pages
  being on swap, all at once (`ContentsInv`).
- `StepsInvisibleCorrect`, with every call and any initial frame table: from a state in
  `ContentsInv` each step maps to a step of `AddressSpaceMemory` or a stutter
  (`StepMaps`, one lemma per action). `PagingInvisibleCorrect` is the whole refinement,
  for programs that neither fork, read nor exit, whose states are all in `ContentsInv`.

**Readers/writer lock** (`RWLockProofs`), for every finite set of threads, with and without
spurious wake-ups. The invariant is the conjunction of types, counters, exclusion and
wakers: the code decides by counters, so exclusion needs them exact, and what
a leaving writer does for sleepers depends on `w_wait`. From it follow
`TypeCorrect`, `ExclusionCorrect`, `CountersCorrect`, `NoLostWakeup`,
`WritePriorityCorrect` (an action property) and `ImplementsReadersWriters` (the
refinement: every step maps to a step of `ReadersWriters` or a stutter).

**Hash chain** (`HashChainProofs`), for any finite sets of threads and addresses, any keys and
values.

- `ChainUsesLock`: every behaviour is one of `RWLock`'s `Spec`, since the steps on the list
  leave the lock's variables alone and all others are the lock's. So the theorems on
  the lock hold under it; `ChainExclusion` is the one the list needs.
- `ChainSoundCorrect`. The invariant `ChainInv` does not speak of the list as a sequence: there
  exist positions `pos` that grow along the `next` pointers and a function `nx` that is
  the pointers plus that of the entry `remove` has deleted and not unlinked yet
  (`ListOK`). What a thread holds is described by where it is (`Sees`: everything in front of
  its entry has another key). That the recursive function `ChainSound` is stated with
  walks through exactly these entries is shown by a least counterexample.
- `LinearizableCorrect`. The map of `AtomicMap` is read off the list when nobody writes; while
  a writer is inside, it is the history variable `before` until the step that takes
  effect (`Leads`). `Carries` says what the two halves of `increment` hand over.

**Process manager** (`ProcessManagerProofs`), for every finite set of threads and every number of ids.

- With and without the timer: `LockCorrect`. That the lock is held exactly by a thread in the middle of its Join is
  inductive with the types; that no Release is lost needs `QueueInv`: those queued for a lock want it and are queued
  once, and while the lock is free and somebody is queued, a thread that is not queued is about to try it. Then a thread that
  queues finds the lock held, and a Release, the one in `broadcast` too, wakes the next. And `NoEarlyReturnCorrect`, from `WakeInv`: only sleepers of an id are in
  its condition queue, and a thread has met an exit exactly if an exit took it off.
- `PidsCorrect`, without the timer. Its invariant adds `Serial`: system calls do not
  overlap, hence nobody waits for the lock of an id, and an id that `joinImpl` found in
  use is still in use when `join` counts its caller. The cardinalities of
  `PidsExact` change by one at a time because processes and sleepers form finite
  sets.
- `TypeCorrect`: that a count is a natural number is not inductive, because
  `clearPID` and `join` decrement without a test; without the timer it follows from
  `PidsExact`. With the timer `TypeOK` claims only that counts are integers.
- `JoinStatusCorrect` (an action property), without the timer. The invariant
  `StatusKept` says that from the exit on until a woken joiner has counted itself
  out, its id has no process and the recorded status is that of the exit; this is
  where the exact counts are needed. It excludes the last id, whose status `getPID`
  overwrites when it finds no free one.

**Processes of project_2** (`MultiprogrammingProofs`), for every finite set of threads and all
numbers of ids, frames, descriptors and table entries.

- The actions are first reduced to seven kinds of step (`Kind`: stop, launch, sleep, free ids,
  leave, open, close), so that each invariant is shown once per kind.
- `TypeCorrect` and `ProgramsStayTracked` are inductive only together, with `used` as the number of
  entries of the file table: Open finds an entry because the count is not at its limit,
  a launch finds a parent's PCB because programs are tracked, and two programs never
  share an id.
- `FramesAreCounted`: the sum over all programs is a fold over a finite set; the first part of the module
  proves that a fold of `+` is a sum, by induction on finite sets as a well-founded order.
- `SleepersStayWakeable` and `FilesStayIntact` are inductive on top of these.

**Nachos threads** (`NachosThreadsProofs`), for every finite set of threads.

- The first part is about lists: elements and repetitions of concatenated, appended and
  shortened sequences.
- `TypeCorrect`, `ThreadsArePlaced`: the invariant gives every living thread one place, on the processor,
  on the ready list or in one queue, lists without repetitions, and ties the queue to what
  the thread is doing (`Placed`).
- `NoVLost`, `NoReleaseLost`: the properties are inductive on top of that; a V wakes a thread that
  counts as "woken, yet to take it" until it runs.
- `ImplementsMesaMonitor`: the refinement, step by step.
- `DeletesOnlyTheFinished`: `Scheduler::Run` deletes only a thread that has called Finish. No
  run states this one.

**MIPS processor** (`MipsProofs`), for words of any multiple of four bits, any sizes of code, memory and pages, and
any set of programs that respect the delay slots.

- `MultIsProduct`: the shift-and-add loop gives the double-length product, signed and unsigned.
  `RoundInv` says what the five registers hold after k rounds; the multiplicand is shifted as a
  signed number, whose copies of the sign bit never reach a bit that is looked at. Powers of two are known through the
  number of subsets of 1..n (`FS_SUBSET`): the library states it, and proves it up to the equation
  2^(n+1) = 2 * 2^n, which the provers do not know.
- `TypeCorrect`: words, bytes, and R0 = 0, through aligned and unaligned loads and stores.
- `ImplementsISA`, up to the division that traps: `TypeOK` is strengthened by `DelaySlot` (where NextPC is not the next instruction, the
  instruction before was a branch, so this one is none) and `LoadDelay` (the instruction
  about to run neither reads nor writes the register still being loaded). Both come from `WellFormed`,
  and without either the refinement fails.

**Autograder** (`AutograderProofs`), for any calendar, number of tests and time out.

- `LimitsCorrect` (an action property): what the script keeps is the count and the time of
  the last graded submission, and the comparison of dates errs on one side only (`DatesErrLate`).
- `VerdictsCorrect`: the value of the stale variable before the first test reported is never `None`
  (`CodesUpTo`), so the report is about that test's own program, whose end no assigned poll has seen (`Unassigned`); and a
  value handed on is only read of a program that ended before the first poll.

What the assumptions on constants leave out: `NULL` is no value of any set it could be mistaken
for; `SizeAssumption` of the processor wants code smaller than the words that address it;
`ProgramAssumption` is the R2000's rule for compilers, and that of JALR, that
its two registers differ; `TimeAssumption` wants a time out above 0 (with 0 no program is ever polled inside the loop) and a limit above 0 (with 0 the script still grades
the first submission, as it compares only when there was one before).

Data recursion is in recursive functions, never RECURSIVE operators. The library's induction theorems cannot be
instantiated, so where a proof needs induction (`RoundsInv`, the walk through the list, `CodesUpTo`, sums)
it takes a least counterexample in a well-founded order (`WFMin`).

Only model-checked: liveness (`Quiesces`, `ReadyRuns`, `WokenReturn`, `MachineStops`) and everything about
ENABLED, which the prover does not support. What the four violating runs refute is not a theorem
either; where a property of theirs is proved (`FrameTableExact`, `PagingInvisible`), the theorem's assumptions
exclude the call that breaks it, and the run shows that they are needed.

## 5. Not modelled, and why

- Contents of pages below the page in `VirtualMemory`, and the layout of an executable. `Image`
  stands for what `ReadFile` loads; how it cuts segments is a data question.
- Failures of `Translate` other than page faults in `VirtualMemory`; `MipsInstructions` has
  alignment and bounds. No page is read-only.
- The TLB: the projects are built without `USE_TLB`.
- The bitwise instructions of the processor and `Decode`; `OR` is wrong in the code (see above).
- Isolation of the processes' memory in `ProcessManager`, and of ids in `VirtualMemory`:
  the two share the system calls but no state; an exit does the broadcast, deletes
  the space and clears the id in one section with interrupts off.
- `OpenFileManager` leaves its table and count uninitialised in project_2 (`openfilemanager.cc:14`
  zeroes a local variable); the model takes them as zero. Read from the console drops every other character (`exception.cc:386-387`).
- `threadToBeDestroyed` overwritten by a second finish leaks a thread's stack;
  the state is in `NachosThreads`; `DeletesOnlyTheFinished` is the other direction, that
  nothing else is ever deleted.
- A join that goes to sleep after the exit it waits for, because an earlier joiner
  still keeps the id: the code allows it.
- Building, scores and outputs in `run_autograder`, and the scripts of the other projects. Timed-out programs are not
  killed, and a program that fills the pipe before anybody reads it is taken to hang:
  `programs` is when a program ends as the script sees it.
- The devices, the post office and the file system: no graded project builds them (section 1).

## 6. Plan

Done: threads and monitor; readers/writer lock and hash chain; demand paging
with refinement; process manager; processes and open files of project_2; the MIPS
processor; the autograder's limits; proofs of all their safety properties.

Next, proofs:

1. `NachosThreads`, `Multiprogramming`: that the machine stops only when it should (no thread
   ready, every program ended or waiting), as an invariant next to the liveness TLC checks.
2. `VirtualMemory` with exits: an invariant of the frame table that exits preserve, and what it
   still gives (that a page which is resident is found in its frame, say, or that a fault
   disturbs no page of a process whose frames are recorded right).
3. `MipsMachine`: that unaligned loads and stores in pairs move a whole word.
4. `ProcessManager` with the timer: which part of `PidsExact` survives preemption inside Join.

Next, extending the model: project_3a as a variant of `VirtualMemory` (the hand moves on after an
eviction); `PostOffice` over `Network` (loss, one outstanding send, mailboxes); `FileHeader`
(allocation and extension with the disk running full); `ReadFile` as a function on segments.
