------------------------- MODULE MCMultiprogramming -------------------------
(* A small instance of Multiprogramming for TLC. *)
EXTENDS Multiprogramming

MCThreads  == 1..3
MCSizes    == {1, 2}
(* A status waitFor takes for "not finished", and one it does not. *)
MCStatuses == {NOT_FINISHED, 0}

(* What of a state neither a step nor a property looks at is left out of   *)
(* the VIEW, by which TLC tells states apart: all of it once the machine   *)
(* has stopped inside a step; the thread and the descriptors of a program  *)
(* that has called Exit; and the names of files, of which only whether a   *)
(* descriptor and its entry agree is looked at, until a Fork copies one.   *)
Ended == machine \in {"crashed", "aborted"} \/ (machine = "halted" /\ \E t \in Threads : pid[t] = 0)

FileSeen(file) ==
  IF file = NULL THEN NULL
  ELSE LET entry == openFileTable[file.index]
       IN <<file.index, file.index \notin inherited /\ entry # NULL /\ entry.filename = file.filename>>

PCBSeen(p) ==
  LET pcb == PCB_list[p]
  IN CASE pcb = NULL -> NULL
       [] pcb # NULL /\ p \in {pid[t] : t \in Programs} ->
            <<pcb.thread, pcb.parentPid, pcb.exitStatus, [fd \in Fds |-> FileSeen(pcb.openFiles[fd])]>>
       [] pcb # NULL /\ p \notin {pid[t] : t \in Programs} -> <<pcb.parentPid, pcb.exitStatus>>

MCView ==
  IF Ended THEN <<machine>>
  ELSE <<procs, pages, freeFrames, machine, [p \in Pids |-> PCBSeen(p)], used, inherited,
         [i \in Indices |-> IF openFileTable[i] = NULL THEN 0 ELSE openFileTable[i].numProcOpen]>>
=============================================================================
