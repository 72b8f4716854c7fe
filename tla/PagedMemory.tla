---------------------------- MODULE PagedMemory ----------------------------
(***************************************************************************)
(* VirtualMemory with a history variable that records what user programs   *)
(* observe, and the claim that what they observe is AddressSpaceMemory.    *)
(***************************************************************************)
EXTENDS VirtualMemory

VARIABLE last   \* the last operation programs could observe, with its result

ObservedInit == Init /\ last = <<"start", Initial>>

(* Loads and stores are observed with their value, system calls by name;   *)
(* a page fault, and a call that halts the kernel, are not observed.       *)
ObservedNext ==
  \/ \E p \in Spaces, v \in Pages :
       \/ Load(p, v) /\ last' = <<"load", <<p, v>>, mainMemory[physicalPage[<<p, v>>]]>>
       \/ PageFault(p, v) /\ UNCHANGED last
  \/ \E p \in Spaces, v \in Pages, d \in Values :
       \/ Store(p, v, d) /\ last' = <<"store", <<p, v>>, d>>
       \/ CopyIn(p, v, d) /\ last' = IF <<p, v>> \in valid THEN <<"store", <<p, v>>, d>> ELSE last
  \/ \E p \in Spaces :
       \/ Exec(p) /\ last' = IF halted' THEN last ELSE <<"exec", p>>
       \/ Exit(p) /\ last' = <<"exit", p>>
  \/ \E p, c \in Spaces : Fork(p, c) /\ last' = IF halted' THEN last ELSE <<"fork", p, c>>

ObservedSpec == ObservedInit /\ [][ObservedNext]_<<vars, last>>

(* Paging is invisible: what programs load, and what a new address space   *)
(* holds, is what a private array of pages would give them, whatever the   *)
(* second-chance replacement in swapPageIn moves to swap and back.         *)
mem == [e \in Entries |-> IF e[1] \in live THEN Contents(e) ELSE NULL]
Memory == INSTANCE AddressSpaceMemory
PagingInvisible == Memory!Spec

(* With every system call: a step, of whichever process and whatever came  *)
(* before it, is invisible if the frame table is exact and clean pages are *)
(* on swap when it begins, and it is no fork of a page that is dirty.      *)
ForksCleanPages ==
  \A p, c \in Spaces : Fork(p, c) => dirty \cap PagesOf(p) = {}
StepsInvisible ==
  Memory!Init /\ [][FrameTableExact /\ CleanPagesOnSwap /\ ForksCleanPages
                     => Memory!Next]_Memory!vars
=============================================================================
