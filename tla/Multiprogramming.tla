-------------------------- MODULE Multiprogramming --------------------------
(***************************************************************************)
(* Processes and open files of project_2: the system calls of exception.cc *)
(* with ProcessManager, PCB, AddrSpace, MemoryManager and OpenFileManager. *)
(*                                                                         *)
(* Nachos runs here without a timer, as its tests start it: a system call  *)
(* is cut only where it sleeps or yields, so no lock is ever contended and *)
(* the locks are left out.  Programs yield where they like.  Join and Exit *)
(* sleep on the condition variable of a process id.  Physical memory is    *)
(* the number of free frames, a file is its name.                          *)
(***************************************************************************)
EXTENDS Integers, FiniteSets, Functions

CONSTANTS Threads,       \* the kernel threads processes run on
          Main,          \* the thread of StartProcess
          MAX_PROCESSES,
          NumPhysPages,
          ProgramSizes,  \* the numbers of pages programs have
          ExitStatuses,  \* what programs pass to Exit
          Files,         \* the files of the file system
          Fds,           \* the descriptors of a process that are not the console's
          OPEN_FILE_TABLE_SIZE,
          NULL

NOT_FINISHED  == -1
NO_PARENT_PID == -1
Pids    == 0..(MAX_PROCESSES - 1)
Indices == 0..(OPEN_FILE_TABLE_SIZE - 1)

ASSUME ThreadAssumption == Threads \subseteq Nat /\ Main \in Threads /\ IsFiniteSet(Threads)
ASSUME SizeAssumption ==
  /\ MAX_PROCESSES \in Nat \ {0} /\ OPEN_FILE_TABLE_SIZE \in Nat /\ NumPhysPages \in Nat
  /\ ProgramSizes \subseteq 1..NumPhysPages /\ ExitStatuses \subseteq Int /\ Fds \subseteq Nat

(* What a descriptor of a process refers to, an open file of the system,   *)
(* and a PCB; the pointers to them can be NULL.                            *)
UserOpenFile == [filename : Files, index : Indices]
SysOpenFile  == [filename : Files, numProcOpen : Nat \ {0}]
PCBs == [thread : Threads, parentPid : Pids \cup {NO_PARENT_PID}, exitStatus : Int,
         openFiles : [Fds -> UserOpenFile \cup {NULL}]]

ASSUME NullAssumption == NULL \notin UserOpenFile \cup SysOpenFile \cup PCBs

VARIABLES
  pc,       \* where each thread is: "none" (no process), "run", "join" or "exit"
  pid,      \* the process id its AddrSpace was given
  pages,    \* the frames its AddrSpace holds
  target,   \* the process id it waits for in waitFor
  pids,     \* the ids in use
  PCB_list,
  exitSignals,   \* the threads asleep on the condition variable of each id
  freeFrames,
  openFileTable, \* the system's open files
  used,
  machine,  \* "on", "halted", "aborted" by an assertion, or "crashed" on a NULL pointer
  inherited \* history: the indices of open files a Fork has copied

procs == <<pc, pid, target, pids, exitSignals>>
files == <<openFileTable, used, inherited>>
vars  == <<procs, PCB_list, pages, freeFrames, files, machine>>

NoFiles == [fd \in Fds |-> NULL]

(* PCB::PCB *)
PCB(t, parent) == [thread |-> t, parentPid |-> parent, exitStatus |-> NOT_FINISHED, openFiles |-> NoFiles]

(* StartProcess has loaded the first program.  The table of open files and *)
(* used, which OpenFileManager never initialises, are taken to be zero.    *)
Init ==
  /\ pc = [t \in Threads |-> IF t = Main THEN "run" ELSE "none"]
  /\ pid = [t \in Threads |-> IF t = Main THEN 0 ELSE -1]
  /\ \E n \in ProgramSizes : /\ pages = [t \in Threads |-> IF t = Main THEN n ELSE 0]
                             /\ freeFrames = NumPhysPages - n
  /\ target = [t \in Threads |-> -1]
  /\ pids = {0}
  /\ PCB_list = [p \in Pids |-> IF p = 0 THEN PCB(Main, NO_PARENT_PID) ELSE NULL]
  /\ exitSignals = [p \in Pids |-> {}]
  /\ openFileTable = [i \in Indices |-> NULL]
  /\ used = 0
  /\ machine = "on"
  /\ inherited = {}

At(t, where) == machine = "on" /\ pc[t] = where

Stop(how) == machine' = how /\ UNCHANGED <<procs, PCB_list, pages, freeFrames, files>>

Crash == Stop("crashed")
Halt(t) == At(t, "run") /\ Stop("halted")

First(S) == CHOOSE i \in S : \A j \in S : i <= j

-----------------------------------------------------------------------------
(* Exec and Fork. *)

(* Threads without a process are interchangeable: the first becomes the new one. *)
Fresh(u) == pc[u] = "none" /\ \A v \in Threads : pc[v] = "none" => u <= v

(* A new thread runs a process with a new id, PCB and n frames. *)
Launch(t, u, n, openFiles) ==
  LET p == First(Pids \ pids)
  IN  /\ pids' = pids \cup {p}
      /\ PCB_list' = [PCB_list EXCEPT ![p] = [PCB(u, pid[t]) EXCEPT !.openFiles = openFiles]]
      /\ pid' = [pid EXCEPT ![u] = p]
      /\ pages' = [pages EXCEPT ![u] = n]
      /\ freeFrames' = freeFrames - n
      /\ pc' = [pc EXCEPT ![u] = "run"]
      /\ UNCHANGED <<target, exitSignals, openFileTable, used, machine>>

(* doExec loads a program of n pages.  An AddrSpace that gets no id is     *)
(* deleted again and -1 returned; one without memory allocates all the     *)
(* same and fails an assertion.                                            *)
Exec(t, u, n) ==
  /\ At(t, "run") /\ Fresh(u)
  /\ \/ n > freeFrames /\ Stop("aborted")
     \/ n <= freeFrames /\ pids = Pids /\ UNCHANGED vars
     \/ /\ n <= freeFrames /\ pids # Pids
        /\ Launch(t, u, n, NoFiles)
        /\ UNCHANGED inherited

(* doFork copies the address space and the descriptors; the counts of the  *)
(* open files stay as they are.                                            *)
Fork(t, u) ==
  LET openFiles == PCB_list[pid[t]].openFiles
  IN  /\ At(t, "run") /\ Fresh(u)
      /\ \/ (pages[t] > freeFrames \/ pids = Pids) /\ UNCHANGED vars
         \/ /\ pages[t] <= freeFrames /\ pids # Pids
            /\ Launch(t, u, pages[t], openFiles)
            /\ inherited' = inherited \cup {openFiles[fd].index : fd \in {f \in Fds : openFiles[f] # NULL}}

-----------------------------------------------------------------------------
(* Join and Exit. *)

(* Mutant of Finished: an exit status has to be positive. *)
FinishedIfPositive(p) == PCB_list[p].exitStatus > 0

Finished(p) == PCB_list[p].exitStatus # NOT_FINISHED

(* Mutant of FreePids: the PCBs go, the ids stay marked. *)
IdsStay(ps) == /\ UNCHANGED pids
               /\ PCB_list' = [p \in Pids |-> IF p \in ps THEN NULL ELSE PCB_list[p]]

(* freePid for each of ps: the PCB goes, open files and all. *)
FreePids(ps) ==
  /\ pids' = pids \ ps
  /\ PCB_list' = [p \in Pids |-> IF p \in ps THEN NULL ELSE PCB_list[p]]

SleepOn(t, p, where) ==
  /\ exitSignals' = [exitSignals EXCEPT ![p] = @ \cup {t}]
  /\ target' = [target EXCEPT ![t] = p]
  /\ pc' = [pc EXCEPT ![t] = where]
  /\ UNCHANGED <<pid, pids, PCB_list>>

(* waitFor as Join calls it, from its Acquire or from its Wait on. *)
WaitFor(t, p) ==
  /\ IF PCB_list[p] = NULL THEN Crash
     ELSE /\ \/ ~Finished(p) /\ SleepOn(t, p, "join")
             \/ /\ Finished(p)
                /\ FreePids(IF PCB_list[p].parentPid = pid[t] THEN {p} ELSE {})
                /\ pc' = [pc EXCEPT ![t] = "run"]
                /\ target' = [target EXCEPT ![t] = -1]
                /\ UNCHANGED <<pid, exitSignals>>
          /\ UNCHANGED <<pages, freeFrames, files, machine>>

(* doJoin does not check the id it is given. *)
Join(t, p) ==
  /\ At(t, "run")
  /\ IF p \in Pids THEN WaitFor(t, p) ELSE Crash

Woken(t) == target[t] # -1 /\ t \notin exitSignals[target[t]]

JoinWakes(t) == At(t, "join") /\ Woken(t) /\ WaitFor(t, target[t])

(* Mutant of Broadcast: a Signal. *)
SignalOne(p) == \E S \in SUBSET exitSignals[p] :
  Cardinality(S) <= 1 /\ exitSignals' = [exitSignals EXCEPT ![p] = @ \ S]
Broadcast(p) == exitSignals' = [exitSignals EXCEPT ![p] = {}]

(* waitForChildrenToFinish from the id from on, and what follows it: the   *)
(* finished children before the first that is not are freed.  A child is a *)
(* PCB with the parent's id.  With none left the exit is broadcast; if the *)
(* first process exits the machine halts.                                  *)
WaitForChildren(t, list, from) ==
  LET me       == pid[t]
      children == {p \in Pids : p >= from /\ list[p] # NULL /\ list[p].parentPid = me}
      waitsFor == {p \in children : list[p].exitStatus = NOT_FINISHED}
      reaped   == {p \in children : \A q \in waitsFor : p < q}
      left     == [p \in Pids |-> IF p \in reaped THEN NULL ELSE list[p]]
  IN  /\ pids' = pids \ reaped
      /\ PCB_list' = left
      /\ IF waitsFor # {}
         THEN /\ exitSignals' = [exitSignals EXCEPT ![First(waitsFor)] = @ \cup {t}]
              /\ target' = [target EXCEPT ![t] = First(waitsFor)]
              /\ pc' = [pc EXCEPT ![t] = "exit"]
              /\ UNCHANGED <<pid, machine>>
         ELSE /\ Broadcast(me)
              /\ target' = [target EXCEPT ![t] = -1]
              /\ pc' = [pc EXCEPT ![t] = "none"]
              /\ pid' = [pid EXCEPT ![t] = -1]
              /\ machine' = IF me = 0 THEN "halted" ELSE machine

(* Mutant of DeleteSpace: the frames are not given back. *)
KeepFrames(t) == pages' = [pages EXCEPT ![t] = 0] /\ UNCHANGED freeFrames
DeleteSpace(t) == pages' = [pages EXCEPT ![t] = 0] /\ freeFrames' = freeFrames + pages[t]

(* doExit: the status is stored and the memory freed before the process    *)
(* waits for its children.                                                 *)
Exit(t, status) ==
  /\ At(t, "run")
  /\ DeleteSpace(t)
  /\ WaitForChildren(t, [PCB_list EXCEPT ![pid[t]].exitStatus = status], 0)
  /\ UNCHANGED files

ExitWakes(t) ==
  /\ At(t, "exit") /\ Woken(t)
  /\ LET p == target[t]
     IN \/ PCB_list[p] = NULL /\ Crash
        \/ /\ PCB_list[p] # NULL /\ ~Finished(p)
           /\ SleepOn(t, p, "exit")
           /\ UNCHANGED <<pages, freeFrames, files, machine>>
        \/ /\ PCB_list[p] # NULL /\ Finished(p)
           /\ WaitForChildren(t, PCB_list, p)
           /\ UNCHANGED <<pages, freeFrames, files>>

-----------------------------------------------------------------------------
(* Open, Close, Read and Write. *)

OpenFiles(t) == PCB_list[pid[t]].openFiles
SetOpenFile(t, fd, entry) == PCB_list' = [PCB_list EXCEPT ![pid[t]].openFiles[fd] = entry]

(* doOpen: a fresh OpenFile is never one of the table, so it always gets   *)
(* an entry of its own, also when the process has no descriptor left.      *)
Open(t, f) ==
  LET index == First({i \in Indices : openFileTable[i] = NULL})
      free  == {fd \in Fds : OpenFiles(t)[fd] = NULL}
  IN  /\ At(t, "run")
      /\ used # OPEN_FILE_TABLE_SIZE
      /\ openFileTable' = [openFileTable EXCEPT ![index] = [filename |-> f, numProcOpen |-> 1]]
      /\ used' = used + 1
      /\ IF free = {} THEN UNCHANGED PCB_list
                      ELSE SetOpenFile(t, First(free), [filename |-> f, index |-> index])
      /\ UNCHANGED <<procs, pages, freeFrames, inherited, machine>>

(* Mutant of Reduce: the entry stays when nobody has the file open. *)
KeepEntry(index) ==
  openFileTable' = [openFileTable EXCEPT ![index].numProcOpen = @ - 1] /\ UNCHANGED used

(* reduceProccessOpeningOf *)
Reduce(index) ==
  LET n == openFileTable[index].numProcOpen - 1
  IN  /\ openFileTable' = [openFileTable EXCEPT ![index] =
                             IF n = 0 THEN NULL ELSE [@ EXCEPT !.numProcOpen = n]]
      /\ used' = IF n = 0 THEN used - 1 ELSE used

(* Mutant of CloseOpenFile: the process keeps the descriptor. *)
KeepDescriptor(t, fd) == fd \in Fds /\ UNCHANGED PCB_list
CloseOpenFile(t, fd) == SetOpenFile(t, fd, NULL)

Close(t, fd) ==
  LET file == OpenFiles(t)[fd]
  IN  /\ At(t, "run") /\ file # NULL
      /\ \/ openFileTable[file.index] = NULL /\ Crash
         \/ /\ openFileTable[file.index] # NULL
            /\ Reduce(file.index)
            /\ CloseOpenFile(t, fd)
            /\ UNCHANGED <<procs, pages, freeFrames, inherited, machine>>

(* doRead and doWrite go through the table of the process and the one of   *)
(* the system to the file; only that is modelled of them.                  *)
ReadOrWrite(t, fd) ==
  /\ At(t, "run")
  /\ IF OpenFiles(t)[fd] = NULL THEN Crash
     ELSE IF openFileTable[OpenFiles(t)[fd].index] = NULL THEN Crash
     ELSE UNCHANGED vars

-----------------------------------------------------------------------------
Kernel(t) == JoinWakes(t) \/ ExitWakes(t)
AnyExit(t) == \E status \in ExitStatuses : Exit(t, status)

Next == \E t \in Threads :
          \/ \E u \in Threads, n \in ProgramSizes : Exec(t, u, n)
          \/ \E u \in Threads : Fork(t, u)
          \/ \E p \in Pids \cup {-1} : Join(t, p)
          \/ AnyExit(t) \/ Halt(t)
          \/ \E f \in Files : Open(t, f)
          \/ \E fd \in Fds : Close(t, fd) \/ ReadOrWrite(t, fd)
          \/ Kernel(t)

Spec == Init /\ [][Next]_vars

(* The ready list is FIFO, and every program ends. *)
FairSpec == Spec /\ \A t \in Threads : SF_vars(Kernel(t)) /\ SF_vars(AnyExit(t))
-----------------------------------------------------------------------------
Living   == {t \in Threads : pc[t] # "none"}
Programs == {t \in Threads : pc[t] \in {"run", "join"}}  \* those that have not called Exit

(* Every variable has its type. *)
TypeOK ==
  /\ pc \in [Threads -> {"none", "run", "join", "exit"}]
  /\ pid \in [Threads -> Pids \cup {-1}]
  /\ target \in [Threads -> Pids \cup {-1}]
  /\ pages \in [Threads -> Nat] /\ freeFrames \in Nat
  /\ pids \subseteq Pids
  /\ PCB_list \in [Pids -> PCBs \cup {NULL}]
  /\ exitSignals \in [Pids -> SUBSET Threads]
  /\ openFileTable \in [Indices -> SysOpenFile \cup {NULL}]
  /\ used \in Nat
  /\ machine \in {"on", "halted", "aborted", "crashed"}
  /\ inherited \subseteq Indices

(* A program that has not called Exit keeps its id, its PCB and with it    *)
(* its open files, however often ids have been given out again: what a     *)
(* parent frees, which takes every PCB with its id as parent for a child,  *)
(* has always called Exit.  An id is marked exactly while it has a PCB.    *)
ProgramsTracked ==
  /\ pids = {p \in Pids : PCB_list[p] # NULL}
  /\ \A t \in Programs : /\ pid[t] \in pids
                         /\ PCB_list[pid[t]].thread = t
                         /\ PCB_list[pid[t]].exitStatus = NOT_FINISHED

(* Every frame is free or belongs to a program that has not called Exit,   *)
(* also after an Exec or a Fork that failed.                               *)
FramesCounted ==
  /\ freeFrames + FoldFunction(+, 0, pages) = NumPhysPages
  /\ \A t \in Threads : pages[t] # 0 => t \in Programs

(* Who sleeps in waitFor is not forgotten: a process with the id it sleeps *)
(* on will still broadcast, unless one exited with the status that means   *)
(* NOT_FINISHED.                                                           *)
SleepersAreWoken ==
  \A p \in Pids : exitSignals[p] # {} =>
    \/ \E t \in Living : pid[t] = p
    \/ PCB_list[p] # NULL /\ PCB_list[p].exitStatus = NOT_FINISHED

(* The entries are counted, and an entry no Fork has copied a descriptor   *)
(* of belongs to one descriptor: it is there, it is the file the program   *)
(* opened, and closing any other descriptor leaves it alone.               *)
FilesIntact ==
  /\ used = Cardinality({i \in Indices : openFileTable[i] # NULL})
  /\ \A t \in Programs, fd \in Fds :
       LET file == OpenFiles(t)[fd]
       IN  file # NULL /\ file.index \notin inherited =>
             /\ openFileTable[file.index] # NULL
             /\ openFileTable[file.index].filename = file.filename
             /\ \A u \in Programs, d \in Fds :
                  OpenFiles(u)[d] # NULL /\ OpenFiles(u)[d].index = file.index => <<u, d>> = <<t, fd>>

(* If every program ends, and from some time on no new ones are started,   *)
(* Nachos stops, unless a program exits with -1, so that its joiners never *)
(* learn of it, or processes wait for each other in a circle.              *)
Abandoned == \E p \in Pids : /\ PCB_list[p] # NULL /\ PCB_list[p].exitStatus = NOT_FINISHED
                             /\ \A t \in Programs : pid[t] # p
InACircle == \E S \in SUBSET Living : S # {} /\ \A t \in S : \E u \in S : t \in exitSignals[pid[u]]
NoNewPrograms == <>[][\A t \in Threads : pc[t] = "none" => pc'[t] = "none"]_vars
MachineStops == NoNewPrograms => <>(machine # "on" \/ Abandoned \/ InACircle)
=============================================================================
