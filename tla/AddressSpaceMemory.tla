------------------------- MODULE AddressSpaceMemory -------------------------
(***************************************************************************)
(* What demand paging promises to user programs: every address space is a  *)
(* private array of pages.  A load returns what was last stored, a fork    *)
(* starts from an exact copy, and nothing the kernel does to bring pages   *)
(* in or to throw them out is visible.                                     *)
(*                                                                         *)
(* PagedMemory shows that VirtualMemory implements it: its page faults,    *)
(* evictions and swap traffic are stuttering steps here.                   *)
(***************************************************************************)
CONSTANTS Spaces,    \* addresses at which an AddrSpace object may be allocated
          Initial,   \* the space of the program the kernel is started with
          Pages,     \* virtual page numbers
          Values,    \* what a page may hold
          Image,     \* Image[v]: what page v holds when a program is loaded
          NULL       \* the contents of a page of no address space

VARIABLES live,      \* the address spaces that exist
          mem,       \* mem[<<p, v>>]: the contents of page v of process p
          last       \* the last operation programs could observe, with its result

Entries == Spaces \X Pages

vars == <<live, mem, last>>

Init == /\ live = {Initial}
        /\ mem = [e \in Entries |-> IF e[1] = Initial THEN Image[e[2]] ELSE NULL]
        /\ last = <<"start", Initial>>

LoadPage(e) == /\ e[1] \in live
               /\ last' = <<"load", e, mem[e]>>
               /\ UNCHANGED <<live, mem>>

(* A store by the program, or by the kernel on its behalf. *)
StorePage(e, d) == /\ e[1] \in live
                   /\ mem' = [mem EXCEPT ![e] = d]
                   /\ last' = <<"store", e, d>>
                   /\ UNCHANGED live

(* Exec: a new address space holds the program's image. *)
Create(p) == /\ p \in Spaces \ live
             /\ live' = live \cup {p}
             /\ mem' = [e \in Entries |-> IF e[1] = p THEN Image[e[2]] ELSE mem[e]]
             /\ last' = <<"exec", p>>

(* Fork: the child's pages are copies of the parent's. *)
Clone(p, c) == /\ p \in live /\ c \in Spaces \ live
               /\ live' = live \cup {c}
               /\ mem' = [e \in Entries |-> IF e[1] = c THEN mem[<<p, e[2]>>] ELSE mem[e]]
               /\ last' = <<"fork", p, c>>

Destroy(p) == /\ p \in live
              /\ live' = live \ {p}
              /\ mem' = [e \in Entries |-> IF e[1] = p THEN NULL ELSE mem[e]]
              /\ last' = <<"exit", p>>

Next == \/ \E e \in Entries : LoadPage(e)
        \/ \E e \in Entries, d \in Values : StorePage(e, d)
        \/ \E p \in Spaces : Create(p) \/ Destroy(p)
        \/ \E p, c \in Spaces : Clone(p, c)

Spec == Init /\ [][Next]_vars
=============================================================================
